---- MODULE Spec2Model ----
(***************************************************************************)
(* A model of obsidian-logger: the state container (config.ts), the class  *)
(* registry (class-registry.ts), the caller-context resolver and prefix    *)
(* formatter (stack-parser), the log emitter (loggers.ts) and the          *)
(* window.DEBUG control surface (controller.ts).                           *)
(*                                                                         *)
(* Strings are modelled as Text: finite sequences of atomic tokens.  An    *)
(* identifier, a namespace, and each punctuation mark of a template ("[",  *)
(* "]", ".", ":", " ") is one token, so that String.replace, split('.'),   *)
(* includes(' '), trim and the whitespace normalisation are computed on    *)
(* the token sequence the way the code computes them on characters.  The   *)
(* empty Text <<>> stands for '', null and undefined wherever the code     *)
(* only tests truthiness.                                                  *)
(***************************************************************************)
EXTENDS Integers, Sequences, FiniteSets, TLC

VARIABLES
    config,        \* config.ts: the DebugConfig singleton
    logHistory,    \* config.ts: logHistory, oldest entry first
    classNameMap,  \* class-registry.ts: the WeakMap object -> display name
    windowDEBUG,   \* window.DEBUG: the namespace keys holding a DebugAPI
    console,       \* the console writes performed by the latest call
    clipboard,     \* navigator.clipboard: availability, texts written by the latest
                   \* call, whether writeText settles later than the call that
                   \* started it, and the number of writes still in flight
    now,           \* logical clock behind `new Date()` in log()
    lastCall,      \* the public call that completed last, and its result
    plugins,       \* flat control API: the logger copy bundled in each plugin
    sharedDEBUG    \* flat control API: whose handlers the window.DEBUG object holds

vars == <<config, logHistory, classNameMap, windowDEBUG, console, clipboard,
          now, lastCall, plugins, sharedDEBUG>>

----------------------------------------------------------------------------
(* Bounds of the model *)

\* Capacity of the history buffer.  The source sets 1000 (config.ts:4); the
\* model scales it down so that eviction is reached.
MAX_LOG_ENTRIES == 2

\* Accepted emissions in one behaviour of the history specification.
MaxEmits == 3

\* Accepted emissions in one behaviour of the gate specification.
MaxGateEmits == 1

\* Accepted emissions in one behaviour of the emitter specification.
MaxSiteEmits == 1

\* Clipboard writes in flight at the same time.
MaxPendingWrites == 2

----------------------------------------------------------------------------
(* Text helpers *)

Absent == <<>>

Truthy(t) == t # <<>>

Includes(t, tok) == \E i \in 1..Len(t) : t[i] = tok

\* index of the first occurrence of tok in t, 0 when there is none
IndexOf(t, tok) ==
    IF Includes(t, tok)
    THEN CHOOSE i \in 1..Len(t) : t[i] = tok /\ \A j \in 1..(i-1) : t[j] # tok
    ELSE 0

\* index of the last occurrence of tok in t, 0 when there is none
LastIndexOf(t, tok) ==
    IF Includes(t, tok)
    THEN CHOOSE i \in 1..Len(t) : t[i] = tok /\ \A j \in (i+1)..Len(t) : t[j] # tok
    ELSE 0

\* String.prototype.replace(pattern: string, value): the first occurrence only
ReplaceFirst(t, tok, val) ==
    LET i == IndexOf(t, tok)
    IN  IF i = 0 THEN t
        ELSE SubSeq(t, 1, i-1) \o val \o SubSeq(t, i+1, Len(t))

RECURSIVE TrimStart(_)
TrimStart(t) == IF t # <<>> /\ Head(t) = " " THEN TrimStart(Tail(t)) ELSE t

RECURSIVE TrimEnd(_)
TrimEnd(t) ==
    IF t # <<>> /\ t[Len(t)] = " " THEN TrimEnd(SubSeq(t, 1, Len(t)-1)) ELSE t

Trim(t) == TrimEnd(TrimStart(t))

\* result.replace(/\s\s+/g, ' '): every run of two or more spaces becomes one
RECURSIVE NormalizeSpaces(_)
NormalizeSpaces(t) ==
    IF Len(t) < 2 THEN t
    ELSE IF t[1] = " " /\ t[2] = " " THEN NormalizeSpaces(Tail(t))
         ELSE <<Head(t)>> \o NormalizeSpaces(Tail(t))

\* Array.prototype.join(sep) of a sequence of Texts
RECURSIVE JoinTexts(_, _)
JoinTexts(ts, sep) ==
    IF ts = <<>> THEN <<>>
    ELSE IF Len(ts) = 1 THEN ts[1]
         ELSE ts[1] \o sep \o JoinTexts(Tail(ts), sep)

Min(a, b) == IF a < b THEN a ELSE b

----------------------------------------------------------------------------
(* Severity *)

Levels == {"error", "warn", "info", "debug"}

\* { error: 0, warn: 1, info: 2, debug: 3 }
levels(l) ==
    CASE l = "error" -> 0
      [] l = "warn"  -> 1
      [] l = "info"  -> 2
      [] l = "debug" -> 3

NoLevel == "null"

----------------------------------------------------------------------------
(* State container: config.ts *)

formatTemplateDefault ==
    <<"[", "{namespace}", "]", " ", "{class}", ".", "{method}", ":", " ", "{message}">>

callbackFormatTemplateDefault ==
    <<"[", "{namespace}", "]", " ", "{class}", " ", "(callback)", ":", " ", "{message}">>

configInit ==
    [ namespaceOverride      |-> "",
      defaultLogLevel        |-> "error",
      globalNamespace        |-> "",
      currentLogLevel        |-> "error",
      debugEnabled           |-> FALSE,
      formatTemplate         |-> formatTemplateDefault,
      callbackFormatTemplate |-> callbackFormatTemplateDefault ]

getNamespace(cfg) ==
    IF cfg.namespaceOverride # "" THEN cfg.namespaceOverride
    ELSE IF cfg.globalNamespace # "" THEN cfg.globalNamespace
         ELSE "obsidian-plugin"

getFormatTemplate(cfg) == cfg.formatTemplate

getCallbackFormatTemplate(cfg) == cfg.callbackFormatTemplate

\* fault variant of addLogEntry: push without the shift
addLogEntryNoEvict(hist, entry) == Append(hist, entry)

\* fault variant of addLogEntry: pop() instead of shift() once over capacity
addLogEntryDropNewest(hist, entry) ==
    IF Len(hist) + 1 > MAX_LOG_ENTRIES THEN hist ELSE Append(hist, entry)

\* logHistory.push(entry); if (length > MAX_LOG_ENTRIES) logHistory.shift()
addLogEntry(hist, entry) ==
    LET pushed == Append(hist, entry)
    IN  IF Len(pushed) > MAX_LOG_ENTRIES THEN Tail(pushed) ELSE pushed

\* fault variant of getLogHistory: the copy without the namespace filter
getLogHistoryUnfiltered(hist, namespace) == hist

\* getLogHistory(namespace?): a copy of everything, or the entries of namespace
getLogHistory(hist, namespace) ==
    IF namespace = "" THEN hist
    ELSE SelectSeq(hist, LAMBDA e : e.namespace = namespace)

\* clearLogHistory(namespace?): splice out the entries of namespace, or empty all
clearLogHistory(hist, namespace) ==
    IF namespace # "" THEN SelectSeq(hist, LAMBDA e : e.namespace # namespace)
    ELSE <<>>

----------------------------------------------------------------------------
(* JavaScript values handed to the logger *)

Undefined == [kind |-> "undef", id |-> "", text |-> <<>>]

Obj(o) == [kind |-> "obj", id |-> o, text |-> <<>>]

Str(t) == [kind |-> "str", id |-> "", text |-> t]

\* JavaScript truthiness of a value
ValTruthy(v) == v.kind = "obj" \/ (v.kind = "str" /\ v.text # <<>>)

----------------------------------------------------------------------------
(* Class registry: class-registry.ts *)

\* The objects of the model: three instances of one class K, the class itself,
\* the Function and String constructors, and an object without a constructor
\* (Object.create(null)).
Objects == {"w1", "w2", "w3", "K", "Function", "String", "bare"}

\* instance.constructor ("" when the object has none)
constructorOf(o) ==
    CASE o \in {"w1", "w2", "w3"}          -> "K"
      [] o \in {"K", "Function", "String"} -> "Function"
      [] OTHER                             -> ""

classNameMapInit == [o \in Objects |-> Absent]

\* fault variant of registerLoggerClass: the constructor is not registered
registerLoggerClassDirectOnly(map, instance, originalName) ==
    IF instance # "" /\ Truthy(originalName)
    THEN [map EXCEPT ![instance] = originalName]
    ELSE map

\* registerLoggerClass(instance, originalName); instance "" is null/undefined
registerLoggerClass(map, instance, originalName) ==
    IF instance # "" /\ Truthy(originalName)
    THEN LET direct == [map EXCEPT ![instance] = originalName]
             ctor   == constructorOf(instance)
         IN  IF ctor # "" /\ ctor # instance
             THEN [direct EXCEPT ![ctor] = originalName]
             ELSE direct
    ELSE map

\* fault variant of getRegisteredClassName: the constructor mapping is
\* consulted before the direct one
lookupRegisteredCtorFirst(map, instance) ==
    IF instance = "" THEN Absent
    ELSE LET ctor == constructorOf(instance)
         IN  IF ctor # "" /\ map[ctor] # Absent THEN map[ctor] ELSE map[instance]

\* getRegisteredClassName(instance) for an object ("" is null/undefined)
lookupRegistered(map, instance) ==
    IF instance = "" THEN Absent
    ELSE IF map[instance] # Absent THEN map[instance]
         ELSE LET ctor == constructorOf(instance)
              IN  IF ctor # "" /\ map[ctor] # Absent THEN map[ctor] ELSE Absent

\* getRegisteredClassName(value): a string is no WeakMap key, and its
\* constructor is String
getRegisteredClassName(map, v) ==
    CASE v.kind = "obj" -> lookupRegistered(map, v.id)
      [] v.kind = "str" -> IF v.text = <<>> THEN Absent ELSE map["String"]
      [] OTHER          -> Absent

----------------------------------------------------------------------------
(* Caller-context resolver: getCallerInfo and its helpers *)

\* A stack line "at [new ]<fn> (<location>)".  internal: the line names one of
\* the logger's own functions; plugin: the location is '(plugin:sidecars:'.
Frame(fn, isNew, internal, plugin) ==
    [fn |-> fn, isNew |-> isNew, internal |-> internal, plugin |-> plugin]

\* /at\s+(log|debug|info|warn|error|logger)\s*\(/i
LoggerFnNames == {"log", "debug", "info", "warn", "error", "logger"}

\* names isMeaningfulContext rejects (compared lower-cased)
skipNames == {"eval", "anonymous", "apply", "call", "constructor"}

\* tokens whose lower-cased text contains 'callback'
CallbackTokens == {"onCallback", "callback"}

\* tokens whose lower-cased text starts with '_on'
OnTokens == {"_onTimeout"}

\* tokens whose lower-cased text contains 'eventemitter'
EmitterTokens == {"EventEmitter"}

\* tokens that start with 'emit' (a line holding '.emit')
EmitTokens == {"emit"}

\* trimmed.includes('at eval (')
isEvalLine(f) == ~f.isNew /\ f.fn = <<"eval">>

\* the filter of lines.slice(1)
isRelevantLine(f) ==
    /\ ~f.internal
    /\ ~(~f.isNew /\ Len(f.fn) = 1 /\ f.fn[1] \in LoggerFnNames)
    /\ ~(~f.plugin /\ isEvalLine(f))

extractClassAndMethod(name) ==
    IF name = <<>> THEN [className |-> Absent, methodName |-> Absent]
    ELSE IF Includes(name, ".")
         THEN LET d == LastIndexOf(name, ".")
              IN  [className  |-> SubSeq(name, 1, d-1),
                   methodName |-> SubSeq(name, d+1, Len(name))]
         ELSE [className |-> Absent, methodName |-> name]

isMeaningfulContext(name) ==
    /\ name # <<>>
    /\ ~(Len(name) = 1 /\ name[1] \in skipNames)
    /\ name # <<"Object">>

\* toLowerCase().includes('callback')
includesCallback(name) == \E i \in 1..Len(name) : name[i] \in CallbackTokens

\* toLowerCase().startsWith('_on')
startsWithOn(name) == name # <<>> /\ name[1] \in OnTokens

\* the stack line holds 'eventemitter' or '.emit'
lineHasEmitHint(f) ==
    \/ \E i \in 1..Len(f.fn) : f.fn[i] \in EmitterTokens
    \/ \E i \in 2..Len(f.fn) : f.fn[i-1] = "." /\ f.fn[i] \in EmitTokens

NoCallerInfo == [className |-> Absent, methodName |-> Absent, isCallback |-> FALSE]

\* the for loop over relevantLines: the first line that yields a meaningful name
RECURSIVE scanLines(_)
scanLines(lines) ==
    IF lines = <<>> THEN NoCallerInfo
    ELSE LET f  == Head(lines)
             cm == extractClassAndMethod(f.fn)
         IN  IF f.fn # <<>>
                /\ (isMeaningfulContext(cm.methodName) \/ isMeaningfulContext(cm.className))
             THEN IF cm.methodName = <<"eval">> /\ cm.className = Absent
                  THEN [className |-> Absent, methodName |-> Absent, isCallback |-> TRUE]
                  ELSE [className  |-> cm.className,
                        methodName |-> cm.methodName,
                        isCallback |-> \/ includesCallback(cm.methodName)
                                       \/ includesCallback(cm.className)
                                       \/ startsWithOn(cm.methodName)
                                       \/ lineHasEmitHint(f)]
             ELSE scanLines(Tail(lines))

\* getCallerInfo(): stack is new Error().stack without its first line
getCallerInfo(stack) == scanLines(SelectSeq(stack, isRelevantLine))

----------------------------------------------------------------------------
(* Prefix formatter: formatPrefixOnly and formatPrefixCustom *)

\* lines 962-966 / 893-897: a class text holding '.' and no method is split at
\* its last '.'
splitClassFallback(cm) ==
    IF Truthy(cm.className) /\ ~Truthy(cm.methodName) /\ Includes(cm.className, ".")
    THEN LET d == LastIndexOf(cm.className, ".")
         IN  [className  |-> SubSeq(cm.className, 1, d-1),
              methodName |-> SubSeq(cm.className, d+1, Len(cm.className))]
    ELSE cm

\* lines 967-971 / 899-903: a method text holding '.' and no class is split at
\* its first '.'
splitMethodFallback(cm) ==
    IF ~Truthy(cm.className) /\ Truthy(cm.methodName) /\ Includes(cm.methodName, ".")
    THEN LET d == IndexOf(cm.methodName, ".")
         IN  [className  |-> SubSeq(cm.methodName, 1, d-1),
              methodName |-> SubSeq(cm.methodName, d+1, Len(cm.methodName))]
    ELSE cm

\* lines 955-960 / 881-889: nothing derived for the class, the stack has one
stackClassFallback(cm, callerInfo) ==
    IF ~Truthy(cm.className) /\ Truthy(callerInfo.className)
    THEN IF ~Truthy(callerInfo.methodName)
         THEN [cm EXCEPT !.methodName = callerInfo.className]
         ELSE [className |-> callerInfo.className, methodName |-> callerInfo.methodName]
    ELSE cm

\* fault variant of formatPrefixOnly: the class name of the stack, when there
\* is one, wins over the registered name
derivePrefixOnlyStackFirst(map, component, contextInstance, callerInfo) ==
    [className  |-> IF Truthy(callerInfo.className) THEN callerInfo.className
                    ELSE getRegisteredClassName(map, contextInstance),
     methodName |-> IF callerInfo.isCallback THEN Absent ELSE callerInfo.methodName,
     isCallback |-> callerInfo.isCallback]

\* the class and method formatPrefixOnly derives, and the callback flag
derivePrefixOnly(map, component, contextInstance, callerInfo) ==
    LET cb0 == callerInfo.isCallback
        a == IF ValTruthy(contextInstance)
             THEN LET reg == getRegisteredClassName(map, contextInstance)
                  IN  IF Truthy(callerInfo.methodName) /\ ~cb0
                      THEN [className |-> reg, methodName |-> callerInfo.methodName]
                      ELSE IF Truthy(callerInfo.methodName) /\ cb0 /\ ~Truthy(reg)
                           THEN [className |-> callerInfo.className, methodName |-> Absent]
                           ELSE [className |-> reg, methodName |-> Absent]
             ELSE IF Truthy(component)
                  THEN [className |-> component, methodName |-> callerInfo.methodName]
                  ELSE [className  |-> callerInfo.className,
                        methodName |-> callerInfo.methodName]
        d == splitMethodFallback(splitClassFallback(stackClassFallback(a, callerInfo)))
    IN  [className  |-> d.className,
         methodName |-> d.methodName,
         isCallback |-> \/ cb0
                        \/ (Truthy(d.methodName)
                            /\ (includesCallback(d.methodName) \/ startsWithOn(d.methodName)))]

\* the class and method formatPrefixCustom derives, and the callback flag
derivePrefixCustom(map, component, contextInstance, callerInfo) ==
    LET cb0 == callerInfo.isCallback
        a == IF ValTruthy(contextInstance)
             THEN LET reg == getRegisteredClassName(map, contextInstance)
                  IN  IF Truthy(callerInfo.methodName) /\ ~cb0
                      THEN [className |-> reg, methodName |-> callerInfo.methodName]
                      ELSE IF Truthy(callerInfo.methodName) /\ cb0 /\ ~Truthy(reg)
                           THEN [className  |-> callerInfo.className,
                                 methodName |-> callerInfo.methodName]
                           ELSE [className |-> reg, methodName |-> Absent]
             ELSE IF Truthy(component)
                  THEN [className |-> component, methodName |-> callerInfo.methodName]
                  ELSE [className  |-> callerInfo.className,
                        methodName |-> callerInfo.methodName]
        d == splitMethodFallback(splitClassFallback(stackClassFallback(a, callerInfo)))
    IN  [className  |-> d.className,
         methodName |-> d.methodName,
         isCallback |-> \/ cb0
                        \/ (Truthy(d.methodName)
                            /\ (includesCallback(d.methodName) \/ startsWithOn(d.methodName)))]

\* template.replace('{namespace}', ..).replace('{class}', ..), then {method}
\* only when the template holds it
applyNames(template, namespace, className, methodName) ==
    LET r == ReplaceFirst(ReplaceFirst(template, "{namespace}", <<namespace>>),
                          "{class}", className)
    IN  IF Includes(template, "{method}") THEN ReplaceFirst(r, "{method}", methodName)
        ELSE r

\* fault variant of formatPrefixOnly: the direct template is used whatever the
\* context
formatPrefixOnlyDirect(cfg, map, component, contextInstance, stack) ==
    LET d      == derivePrefixOnly(map, component, contextInstance, getCallerInfo(stack))
        named  == applyNames(getFormatTemplate(cfg), getNamespace(cfg),
                             d.className, d.methodName)
        result == Trim(ReplaceFirst(named, "{message}", <<>>))
    IN  Trim(NormalizeSpaces(result))

\* formatPrefixOnly(component, contextInstance)
formatPrefixOnly(cfg, map, component, contextInstance, stack) ==
    LET d        == derivePrefixOnly(map, component, contextInstance, getCallerInfo(stack))
        template == IF d.isCallback THEN getCallbackFormatTemplate(cfg)
                    ELSE getFormatTemplate(cfg)
        named    == applyNames(template, getNamespace(cfg), d.className, d.methodName)
        result   == Trim(ReplaceFirst(named, "{message}", <<>>))
    IN  Trim(NormalizeSpaces(result))

\* fault variant of formatPrefixCustom: the message is left out
formatPrefixCustomNoMessage(cfg, map, component, contextInstance, message, stack) ==
    formatPrefixOnly(cfg, map, component, contextInstance, stack)

\* formatPrefixCustom(component, contextInstance, message)
formatPrefixCustom(cfg, map, component, contextInstance, message, stack) ==
    LET d        == derivePrefixCustom(map, component, contextInstance, getCallerInfo(stack))
        template == IF d.isCallback THEN getCallbackFormatTemplate(cfg)
                    ELSE getFormatTemplate(cfg)
        r1       == ReplaceFirst(ReplaceFirst(template, "{namespace}", <<getNamespace(cfg)>>),
                                 "{class}", d.className)
        r2       == ReplaceFirst(r1, "{message}", message)
        result   == IF Includes(template, "{method}")
                    THEN ReplaceFirst(r2, "{method}", d.methodName)
                    ELSE r2
    IN  Trim(NormalizeSpaces(result))

\* fault variant of setDefaultLogLevel: the current level follows the default
\* level whether logging is enabled or not
setDefaultLogLevelAlways(cfg, level) ==
    [cfg EXCEPT !.defaultLogLevel = level, !.currentLogLevel = level]

\* setDefaultLogLevel(level)
setDefaultLogLevel(cfg, level) ==
    IF ~cfg.debugEnabled
    THEN [cfg EXCEPT !.defaultLogLevel = level, !.currentLogLevel = level]
    ELSE [cfg EXCEPT !.defaultLogLevel = level]

\* fault variant of setLevel: the level is set and logging is never enabled
setLevelOnly(cfg, level) == [cfg EXCEPT !.currentLogLevel = level]

\* loggerDebugAPI.setLevel(level)
setLevel(cfg, level) ==
    IF ~cfg.debugEnabled /\ level # "error"
    THEN [cfg EXCEPT !.currentLogLevel = level, !.debugEnabled = TRUE]
    ELSE [cfg EXCEPT !.currentLogLevel = level]

----------------------------------------------------------------------------
(* Control surface gate: shouldLog *)

\* typeof window !== 'undefined': the host is the Obsidian renderer
WindowDefined == TRUE

\* nsController.enabled() of any DebugAPI this module installed
apiEnabled(cfg) == cfg.debugEnabled

\* fault variant of getLevel: the level is reported while logging is disabled
apiGetLevelRaw(cfg) == cfg.currentLogLevel

\* nsController.getLevel()
apiGetLevel(cfg) == IF cfg.debugEnabled THEN cfg.currentLogLevel ELSE NoLevel

\* fault variant of shouldLog: a level equal to the current one is rejected
shouldLogStrict(cfg, DEBUG, level) ==
    IF ~WindowDefined THEN FALSE
    ELSE IF level = "error" THEN TRUE
    ELSE IF getNamespace(cfg) \notin DEBUG THEN FALSE
    ELSE IF ~cfg.debugEnabled THEN FALSE
    ELSE levels(level) < levels(cfg.currentLogLevel)

\* fault variant of shouldLog: the error bypass is missing
shouldLogNoErrorBypass(cfg, DEBUG, level) ==
    IF ~WindowDefined THEN FALSE
    ELSE IF getNamespace(cfg) \notin DEBUG THEN FALSE
    ELSE IF ~cfg.debugEnabled THEN FALSE
    ELSE levels(level) <= levels(cfg.currentLogLevel)

\* fault variant of shouldLog: the controller of any namespace is consulted
shouldLogAnyController(cfg, DEBUG, level) ==
    IF ~WindowDefined THEN FALSE
    ELSE IF level = "error" THEN TRUE
    ELSE IF DEBUG = {} THEN FALSE
    ELSE IF ~apiEnabled(cfg) THEN FALSE
    ELSE levels(level) <= levels(apiGetLevel(cfg))

\* shouldLog(level): DEBUG holds the registered namespace keys
shouldLog(cfg, DEBUG, level) ==
    IF ~WindowDefined THEN FALSE
    ELSE IF level = "error" THEN TRUE
    ELSE IF getNamespace(cfg) \notin DEBUG THEN FALSE
    ELSE IF ~apiEnabled(cfg) THEN FALSE
    ELSE levels(level) <= levels(apiGetLevel(cfg))

----------------------------------------------------------------------------
(* Safe serialization: safeStringify of loggers.ts *)

\* tokens that are not identifier-shaped (/^[A-Za-z_$][A-Za-z0-9_$]*$/ fails)
NonIdentifierTokens ==
    {" ", ".", "[", "]", ":", "/", "\n", "(", "(callback)", "...", "file.ts", "42",
     "{namespace}", "{class}", "{method}", "{message}"}

isIdentifier(t) == Len(t) = 1 /\ t[1] \notin NonIdentifierTokens

\* Values of an object graph: primitives, references to objects of a heap,
\* and properties whose getter throws.
Null == [kind |-> "null", id |-> "", text |-> <<>>]

Num(t) == [kind |-> "num", id |-> "", text |-> <<t>>]

Fn == [kind |-> "fn", id |-> "", text |-> <<>>]

Throws == [kind |-> "throws", id |-> "", text |-> <<>>]

\* An object of a heap: an array or an object; the name of its constructor
\* (Absent when it has none); what getRegisteredClassName returns for it; its
\* own enumerable properties in insertion order (the items of an array).  The
\* objects of the model are no DOM nodes (nodeType is undefined).
HeapObject(isArray, ctorName, registered, keys, vals) ==
    [isArray |-> isArray, ctorName |-> ctorName, registered |-> registered,
     keys |-> keys, vals |-> vals]

\* safeStringify(obj, maxDepth = 3)
maxDepth == 3

\* String(value) of a primitive
stringOf(v) ==
    CASE v.kind = "null"  -> <<"null">>
      [] v.kind = "undef" -> <<"undefined">>
      [] v.kind = "fn"    -> <<"function">>
      [] OTHER            -> v.text

\* the outcome of a block of code: a text, or an exception
Thrown == [throws |-> TRUE, text |-> <<>>]

Ret(t) == [throws |-> FALSE, text |-> t]

\* JSON.stringify(value, replacer) with the replacer of lines 40-47: tempSeen
\* collects every object the traversal meets, and an object met again is
\* replaced by the string '[Circular]'.  One traversal in two modes.  In mode
\* "value" the result is the text of v, omit for undefined and functions, and
\* seen is tempSeen after the value.  In mode "members" the result holds the
\* members of object id from the i-th on, appended to parts.  A nested
\* traversal is bound by a set constructor, which evaluates it once.
RECURSIVE jsonWalk(_, _, _, _, _, _, _)
jsonWalk(h, mode, v, id, i, seen, parts) ==
    IF mode = "value"
    THEN CASE v.kind = "throws" ->
                  [throws |-> TRUE, omit |-> FALSE, text |-> <<>>, seen |-> seen,
                   parts |-> <<>>]
           [] v.kind \in {"undef", "fn"} ->
                  [throws |-> FALSE, omit |-> TRUE, text |-> <<>>, seen |-> seen,
                   parts |-> <<>>]
           [] v.kind = "null" ->
                  [throws |-> FALSE, omit |-> FALSE, text |-> <<"null">>, seen |-> seen,
                   parts |-> <<>>]
           [] v.kind = "num" ->
                  [throws |-> FALSE, omit |-> FALSE, text |-> v.text, seen |-> seen,
                   parts |-> <<>>]
           [] v.kind = "str" ->
                  [throws |-> FALSE, omit |-> FALSE,
                   text |-> <<"\"">> \o v.text \o <<"\"">>, seen |-> seen, parts |-> <<>>]
           [] v.kind = "obj" ->
                  IF v.id \in seen
                  THEN [throws |-> FALSE, omit |-> FALSE,
                        text |-> <<"\"", "[Circular]", "\"">>, seen |-> seen,
                        parts |-> <<>>]
                  ELSE CHOOSE result \in
                           { [throws |-> m.throws, omit |-> FALSE, seen |-> m.seen,
                              parts |-> <<>>,
                              text |-> IF h[v.id].isArray
                                       THEN <<"[">> \o JoinTexts(m.parts, <<",">>) \o <<"]">>
                                       ELSE <<"{">> \o JoinTexts(m.parts, <<",">>) \o <<"}">>] :
                             m \in { jsonWalk(h, "members", v, v.id, 1,
                                              seen \cup {v.id}, <<>>) } } : TRUE
    ELSE LET o == h[id]
         IN  IF i > Len(o.vals)
             THEN [throws |-> FALSE, omit |-> FALSE, text |-> <<>>, seen |-> seen,
                   parts |-> parts]
             ELSE CHOOSE result \in
                      { IF r.throws
                        THEN [throws |-> TRUE, omit |-> FALSE, text |-> <<>>,
                              seen |-> seen, parts |-> parts]
                        ELSE jsonWalk(h, "members", v, id, i + 1, r.seen,
                                 IF o.isArray
                                 THEN Append(parts, IF r.omit THEN <<"null">> ELSE r.text)
                                 ELSE IF r.omit THEN parts
                                      ELSE Append(parts,
                                               <<"\"", o.keys[i], "\"", ":">> \o r.text)) :
                        r \in { jsonWalk(h, "value", o.vals[i], id, i, seen, <<>>) } } : TRUE

\* the text of value v
jsonValue(h, v, seen) == jsonWalk(h, "value", v, "", 0, seen, <<>>)

\* JSON.stringify of an object (never undefined for an object)
jsonStringify(h, id) ==
    CHOOSE result \in { [throws |-> r.throws, text |-> r.text] :
                        r \in { jsonValue(h, Obj(id), {}) } } : TRUE


\* the keys the name summary looks for, in order
summaryKeys == <<"name", "id", "type", "status", "length">>

\* the index of key among the properties of o, 0 when o has no such property
propIndex(o, key) ==
    IF \E i \in 1..Len(o.keys) : o.keys[i] = key
    THEN CHOOSE i \in 1..Len(o.keys) : o.keys[i] = key
    ELSE 0

\* the loop over summaryKeys from the k-th key on: 'key: value' for every
\* property that is neither an object nor a function, three at most; reading a
\* property whose getter throws raises
RECURSIVE keyProps(_, _, _)
keyProps(o, k, parts) ==
    IF k > Len(summaryKeys) \/ Len(parts) >= 3 THEN [throws |-> FALSE, parts |-> parts]
    ELSE LET i == propIndex(o, summaryKeys[k])
         IN  IF i = 0 THEN keyProps(o, k + 1, parts)
             ELSE IF o.vals[i].kind = "throws" THEN [throws |-> TRUE, parts |-> parts]
             ELSE IF o.vals[i].kind \in {"obj", "null", "fn"} THEN keyProps(o, k + 1, parts)
             ELSE keyProps(o, k + 1,
                      Append(parts, <<summaryKeys[k], ":", " ">> \o stringOf(o.vals[i])))

\* `${name}${keyProps.length > 0 ? ` {${keyProps.join(', ')}}` : ''}`
nameSummary(o, name) ==
    LET kp == keyProps(o, 1, <<>>)
    IN  IF kp.throws THEN Thrown
        ELSE Ret(name \o (IF kp.parts # <<>>
                          THEN <<" ", "{">> \o JoinTexts(kp.parts, <<",", " ">>) \o <<"}">>
                          ELSE <<>>))

\* /^[a-zA-Z_$][a-zA-Z0-9_$]*$/.test(key) ? key : `"${key}"`
quotedKey(key) ==
    IF key \in NonIdentifierTokens THEN <<"\"", key, "\"">> ELSE <<key>>

\* catch { return '[Object]' } of lines 105-106, rethrowing instead (fault
\* variant)
rethrow(body) == body

\* try { body } catch { return '[Object]' }, lines 20 and 105-106
catchAll(body) == IF body.throws THEN Ret(<<"[Object]">>) ELSE body

\* try { `${quotedKey}: ${val}` } catch { `${key}: [Error]` }, lines 93-100
catchProp(key, val) ==
    IF val.throws THEN <<key, ":", " ", "[Error]">>
    ELSE quotedKey(key) \o <<":", " ">> \o val.text

\* fault variant of stringifyWithCircularCheck: no check of the seen set (the
\* recursion is cut at depth 2 * maxDepth only)
RECURSIVE stringifyNoCircularCheck(_, _, _, _)
stringifyNoCircularCheck(h, v, depth, seen) ==
    IF v.kind = "throws" THEN Thrown
    ELSE IF v.kind # "obj" THEN Ret(stringOf(v))
    ELSE IF depth >= 2 * maxDepth THEN Ret(<<"...">>)
    ELSE LET o == h[v.id]
         IN  IF o.isArray
             THEN Ret(<<"[">> \o JoinTexts([i \in 1..Min(Len(o.vals), 5) |->
                            stringifyNoCircularCheck(h, o.vals[i], depth + 1, seen).text],
                            <<",", " ">>) \o <<"]">>)
             ELSE Ret(<<"{">> \o JoinTexts([i \in 1..Min(Len(o.keys), 5) |->
                            catchProp(o.keys[i],
                                stringifyNoCircularCheck(h, o.vals[i], depth + 1, seen))],
                            <<",", " ">>) \o <<"}">>)

\* stringifyWithCircularCheck(value, depth); seen holds the objects being
\* rendered (added on entry, deleted in the finally clause).  Reading a
\* property whose getter throws raises where the read happens.  The outcome
\* of JSON.stringify is bound by a set constructor, which evaluates it once.
RECURSIVE stringifyWithCircularCheck(_, _, _, _)
stringifyWithCircularCheck(h, v, depth, seen) ==
    IF v.kind = "throws" THEN Thrown
    ELSE IF v.kind # "obj" THEN Ret(stringOf(v))
    ELSE IF v.id \in seen THEN Ret(<<"[Circular]">>)
    ELSE
    LET o     == h[v.id]
        seen1 == seen \cup {v.id}
        first == Min(Len(o.vals), 5)
        \* lines 22-27
        items == [i \in 1..first |->
                     stringifyWithCircularCheck(h, o.vals[i], depth + 1, seen1)]
        array ==
            IF depth >= maxDepth THEN Ret(<<"[Array...]">>)
            ELSE IF \E i \in 1..first : items[i].throws THEN Thrown
            ELSE Ret(<<"[">>
                     \o JoinTexts([i \in 1..first |-> items[i].text], <<",", " ">>)
                     \o (IF Len(o.vals) > 5 THEN <<",", " ", "...", "more">> ELSE <<>>)
                     \o <<"]">>)
        \* lines 85-104
        props ==
            IF o.keys = <<>> THEN Ret(<<"{", "}">>)
            ELSE Ret(<<"{">>
                     \o JoinTexts([i \in 1..first |->
                            catchProp(o.keys[i],
                                stringifyWithCircularCheck(h, o.vals[i], depth + 1, seen1))],
                            <<",", " ">>)
                     \o (IF Len(o.keys) > 5 THEN <<",", " ", "...">> ELSE <<>>)
                     \o <<"}">>)
        \* lines 56-104: no usable JSON text
        summary ==
            IF Truthy(o.ctorName) /\ o.ctorName \notin {<<"Object">>, <<"Function">>}
            THEN nameSummary(o, o.ctorName)
            ELSE IF Truthy(o.registered) THEN nameSummary(o, o.registered)
            ELSE props
        \* lines 21-104, the body of the try statement; lines 38-54 take the
        \* outcome of JSON.stringify
        body ==
            IF o.isArray THEN array
            ELSE IF depth >= maxDepth THEN Ret(<<"[Object...]">>)
            ELSE CHOOSE result \in
                     { IF /\ ~json.throws
                          /\ json.text # <<"{", "}">>
                          /\ ~Includes(json.text, "[Circular]")
                       THEN Ret(json.text)
                       ELSE summary : json \in { jsonStringify(h, v.id) } } : TRUE
    IN  catchAll(body)

\* safeStringify(obj): a text, or an exception
safeStringify(h, v) == stringifyWithCircularCheck(h, v, 0, {})

----------------------------------------------------------------------------
(* Log emitter: loggers.ts *)

\* fault variant of parseLogArgs: without the args.length > 1 test
parseLogArgsAnyLength(args) ==
    IF Len(args) > 0 /\ args[1].kind = "str" /\ ~Includes(args[1].text, " ")
    THEN [component |-> args[1].text, contextInstance |-> Undefined, logArgs |-> Tail(args)]
    ELSE IF Len(args) > 0 /\ args[1].kind = "obj"
         THEN [component |-> Absent, contextInstance |-> args[1], logArgs |-> Tail(args)]
         ELSE [component |-> Absent, contextInstance |-> Undefined, logArgs |-> args]

\* parseLogArgs(args)
parseLogArgs(args) ==
    IF Len(args) > 1 /\ args[1].kind = "str" /\ ~Includes(args[1].text, " ")
    THEN [component |-> args[1].text, contextInstance |-> Undefined, logArgs |-> Tail(args)]
    ELSE IF Len(args) > 1 /\ args[1].kind = "obj"
         THEN [component |-> Absent, contextInstance |-> args[1], logArgs |-> Tail(args)]
         ELSE [component |-> Absent, contextInstance |-> Undefined, logArgs |-> args]

\* typeof arg === 'object' && arg !== null ? safeStringify(arg) : String(arg);
\* h holds the objects the arguments refer to
stringifyArg(h, v) ==
    IF v.kind = "obj" THEN safeStringify(h, v) ELSE Ret(stringOf(v))

\* logArgs.map(stringify).join(' ') from the i-th part on: a text, or the
\* exception of a part
RECURSIVE mapJoin(_, _, _, _)
mapJoin(h, logArgs, i, parts) ==
    IF i > Len(logArgs) THEN Ret(JoinTexts(parts, <<" ">>))
    ELSE CHOOSE result \in
             { IF part.throws THEN Thrown
               ELSE mapJoin(h, logArgs, i + 1, Append(parts, part.text)) :
               part \in { stringifyArg(h, logArgs[i]) } } : TRUE

messageOf(h, logArgs) == mapJoin(h, logArgs, 1, <<>>)

\* the static-function test of log(): a component and an identifier-shaped
\* first message part
isStaticCall(p) ==
    /\ Truthy(p.component)
    /\ Len(p.logArgs) > 0
    /\ p.logArgs[1].kind = "str"
    /\ isIdentifier(p.logArgs[1].text)

\* what log() computes from its arguments and the captured stack; raised:
\* the serialization of a message part raised, which ends log()
logParts(cfg, map, h, args, stack) ==
    LET p == parseLogArgs(args)
    IN  IF isStaticCall(p)
        THEN LET remaining == messageOf(h, Tail(p.logArgs))
             IN  [prefixOnly |-> formatPrefixCustom(cfg, map, p.component, p.logArgs[1],
                                                    Absent, stack),
                  messageStr |-> remaining.text,
                  raised     |-> remaining.throws,
                  className  |-> p.component,
                  methodName |-> p.logArgs[1].text]
        ELSE LET callerInfo == getCallerInfo(stack)
                 message    == messageOf(h, p.logArgs)
             IN  [prefixOnly |-> formatPrefixOnly(cfg, map, p.component,
                                                  p.contextInstance, stack),
                  messageStr |-> message.text,
                  raised     |-> message.throws,
                  className  |-> IF Truthy(p.component) THEN p.component
                                 ELSE callerInfo.className,
                  methodName |-> callerInfo.methodName]

\* the LogEntry log() stores (its args field repeats logArgs and is left out)
makeEntry(cfg, map, h, level, args, stack, time) ==
    LET lp == logParts(cfg, map, h, args, stack)
    IN  [timestamp        |-> time,
         level            |-> level,
         namespace        |-> getNamespace(cfg),
         className        |-> lp.className,
         methodName       |-> lp.methodName,
         message          |-> lp.messageStr,
         formattedMessage |-> lp.prefixOnly \o <<" ">> \o lp.messageStr]

\* fault variant of consoleWrite: the two-segment write whatever the message
consoleWriteBothSegments(cfg, map, h, level, args, stack) ==
    LET lp == logParts(cfg, map, h, args, stack)
    IN  [method   |-> level,
         prefix   |-> lp.prefixOnly,
         message  |-> lp.messageStr,
         segments |-> 2]

\* the console write of log(): one styled segment for the prefix and, when the
\* message is not empty, one for the message
consoleWrite(cfg, map, h, level, args, stack) ==
    LET lp == logParts(cfg, map, h, args, stack)
    IN  [method   |-> level,
         prefix   |-> lp.prefixOnly,
         message  |-> lp.messageStr,
         segments |-> IF Truthy(lp.messageStr) THEN 2 ELSE 1]

----------------------------------------------------------------------------
(* History exporter: simplifyPath and copyLogs *)

\* [^\/\n\r\t<>":|?*]: a token a path segment may hold
isSegToken(tok) == tok \notin {"/", "\n", "\r", "\t", "<", ">", "\"", ":", "|", "?", "*"}

\* [\s(]: what may precede an absolute path
isPathLead(tok) == tok \in {" ", "\n", "("}

isSpaceToken(tok) == tok \in {" ", "\n"}

\* the longest run of segment tokens of t starting at position s
RECURSIVE segRun(_, _)
segRun(t, s) ==
    IF s <= Len(t) /\ isSegToken(t[s]) THEN <<t[s]>> \o segRun(t, s+1) ELSE <<>>

\* the segments of the longest '/seg/seg...' starting at the '/' at position s
RECURSIVE pathRuns(_, _)
pathRuns(t, s) ==
    IF s <= Len(t) /\ t[s] = "/" /\ segRun(t, s+1) # <<>>
    THEN <<segRun(t, s+1)>> \o pathRuns(t, s + 1 + Len(segRun(t, s+1)))
    ELSE <<>>

RECURSIVE sumLen(_)
sumLen(ts) == IF ts = <<>> THEN 0 ELSE Len(Head(ts)) + 1 + sumLen(Tail(ts))

\* pathPatterns[2] matches at position i: the number of tokens matched, 0 if none
posixMatchLen(t, i) ==
    IF i = 1 /\ Len(pathRuns(t, 1)) >= 2 THEN sumLen(pathRuns(t, 1))
    ELSE IF i < Len(t) /\ isPathLead(t[i]) /\ Len(pathRuns(t, i+1)) >= 2
         THEN 1 + sumLen(pathRuns(t, i+1))
         ELSE 0

\* the replace callback of the absolute-path pattern
posixReplacement(match) ==
    LET lead     == IF isSpaceToken(match[1]) THEN <<match[1]>> ELSE <<>>
        start    == IF match[1] = "/" THEN 1 ELSE 2
        runs     == pathRuns(match, start)
        last     == TrimEnd(runs[Len(runs)])
        trimmed  == IF last = <<>> THEN SubSeq(runs, 1, Len(runs)-1)
                    ELSE [runs EXCEPT ![Len(runs)] = last]
        segments == IF match[1] = "(" THEN <<<<"(">>>> \o trimmed ELSE trimmed
        n        == Len(segments)
    IN  IF n >= 2
        THEN lead \o <<"...", "/">> \o segments[n-1] \o <<"/">> \o segments[n]
        ELSE match

\* result.replace(pathPatterns[2], callback), scanning from position i
RECURSIVE replacePosix(_, _)
replacePosix(t, i) ==
    IF i > Len(t) THEN <<>>
    ELSE LET n == posixMatchLen(t, i)
         IN  IF n > 0
             THEN posixReplacement(SubSeq(t, i, i+n-1)) \o replacePosix(t, i+n)
             ELSE <<t[i]>> \o replacePosix(t, i+1)

\* [A-Za-z]: the tokens that are one letter
Letters ==
    {"A", "B", "C", "D", "E", "F", "G", "H", "I", "J", "K", "L", "M",
     "N", "O", "P", "Q", "R", "S", "T", "U", "V", "W", "X", "Y", "Z",
     "a", "b", "c", "d", "e", "f", "g", "h", "i", "j", "k", "l", "m",
     "n", "o", "p", "q", "r", "s", "t", "u", "v", "w", "x", "y", "z"}

\* [^\\\/\n\r\t<>":|?*]: a token a segment of a Windows path may hold
isWinSegToken(tok) == isSegToken(tok) /\ tok # "\\"

\* the tokens toks stand in t at position s
isAt(t, s, toks) ==
    s >= 1 /\ s + Len(toks) - 1 <= Len(t) /\ SubSeq(t, s, s + Len(toks) - 1) = toks

\* the separator of the escaped pattern is '\\', of the raw pattern '\'
backslashes(escaped) == IF escaped THEN <<"\\", "\\">> ELSE <<"\\">>

\* the longest run of Windows segment tokens of t starting at position s
RECURSIVE winRun(_, _)
winRun(t, s) ==
    IF s <= Len(t) /\ isWinSegToken(t[s]) THEN <<t[s]>> \o winRun(t, s+1) ELSE <<>>

\* [^\\]+ : the longest run of tokens other than a backslash starting at s
RECURSIVE nbRun(_, _)
nbRun(t, s) ==
    IF s <= Len(t) /\ t[s] # "\\" THEN <<t[s]>> \o nbRun(t, s+1) ELSE <<>>

\* the length of the separator at position s: '\\' in the escaped pattern,
\* [\\\/] in the raw one; 0 when there is none
sepLen(t, s, escaped) ==
    IF escaped THEN (IF isAt(t, s, <<"\\", "\\">>) THEN 2 ELSE 0)
    ELSE IF s <= Len(t) /\ t[s] \in {"\\", "/"} THEN 1 ELSE 0

\* the segments of the longest 'seg sep seg sep ...' starting at position s
RECURSIVE winRuns(_, _, _)
winRuns(t, s, escaped) ==
    LET r == winRun(t, s)
        k == sepLen(t, s + Len(r), escaped)
    IN  IF r = <<>> THEN <<>>
        ELSE <<r>> \o (IF k > 0 THEN winRuns(t, s + Len(r) + k, escaped) ELSE <<>>)

\* the tokens taken by [A-Za-z]:\ or \\server\share\ (with every backslash
\* doubled in the escaped pattern) at position i, 0 when neither stands there
winRootLen(t, i, escaped) ==
    LET bs == backslashes(escaped)
        w  == Len(bs)
        r1 == nbRun(t, i + 2*w)
        r2 == nbRun(t, i + 3*w + Len(r1))
    IN  IF i <= Len(t) /\ t[i] \in Letters /\ isAt(t, i+1, <<":">> \o bs) THEN 2 + w
        ELSE IF /\ isAt(t, i, bs \o bs)
                /\ r1 # <<>> /\ isAt(t, i + 2*w + Len(r1), bs)
                /\ r2 # <<>> /\ isAt(t, i + 3*w + Len(r1) + Len(r2), bs)
             THEN 4*w + Len(r1) + Len(r2)
             ELSE 0

RECURSIVE sumRuns(_)
sumRuns(ts) == IF ts = <<>> THEN 0 ELSE Len(Head(ts)) + sumRuns(Tail(ts))

\* pathPatterns[0] (escaped) or pathPatterns[1] (raw) matches at position i:
\* the number of tokens matched, 0 if none
winMatchLen(t, i, escaped) ==
    LET root == winRootLen(t, i, escaped)
        runs == winRuns(t, i + root, escaped)
    IN  IF root > 0 /\ Len(runs) >= 2
        THEN root + sumRuns(runs) + (Len(runs) - 1) * Len(backslashes(escaped))
        ELSE 0

\* match.split(separator), scanning from position s with cur collected so far
RECURSIVE splitAt(_, _, _, _)
splitAt(t, s, escaped, cur) ==
    IF s > Len(t) THEN <<cur>>
    ELSE LET k == sepLen(t, s, escaped)
         IN  IF k > 0 THEN <<cur>> \o splitAt(t, s + k, escaped, <<>>)
             ELSE splitAt(t, s + 1, escaped, cur \o <<t[s]>>)

\* s => s.length > 0
nonEmptySegment(seg) == seg # <<>>

\* the replace callback of the two Windows patterns
winReplacement(match, escaped) ==
    LET segments == SelectSeq(splitAt(match, 1, escaped, <<>>), nonEmptySegment)
        n        == Len(segments)
    IN  IF n >= 2 THEN <<"...", "/">> \o segments[n-1] \o <<"/">> \o segments[n]
        ELSE match

\* result.replace(pathPatterns[0 or 1], callback), scanning from position i
RECURSIVE replaceWindows(_, _, _)
replaceWindows(t, i, escaped) ==
    IF i > Len(t) THEN <<>>
    ELSE LET n == winMatchLen(t, i, escaped)
         IN  IF n > 0
             THEN winReplacement(SubSeq(t, i, i+n-1), escaped)
                      \o replaceWindows(t, i+n, escaped)
             ELSE <<t[i]>> \o replaceWindows(t, i+1, escaped)

\* \.\.\?\/ : the relative pattern asks for the four characters '..?/'
relativePart == <<"..", "?", "/">>

\* '..?/seg/seg...' with two segments or more stands at position p
relativeAt(t, p) == isAt(t, p, relativePart) /\ Len(pathRuns(t, p+2)) >= 2

\* pathPatterns[3] matches at position i: the number of tokens matched, 0 if none
relativeMatchLen(t, i) ==
    IF i = 1 /\ relativeAt(t, 1) THEN 2 + sumLen(pathRuns(t, 3))
    ELSE IF i < Len(t) /\ isPathLead(t[i]) /\ relativeAt(t, i+1)
         THEN 3 + sumLen(pathRuns(t, i+3))
         ELSE 0

\* pathPart.split('/'), scanning from position s with cur collected so far
RECURSIVE splitSlash(_, _, _)
splitSlash(t, s, cur) ==
    IF s > Len(t) THEN <<cur>>
    ELSE IF t[s] = "/" THEN <<cur>> \o splitSlash(t, s + 1, <<>>)
         ELSE splitSlash(t, s + 1, cur \o <<t[s]>>)

\* the replace callback of the relative pattern: pathPart is the match
\* without leadingSpace.length + relativePart.length characters
relativeReplacement(match) ==
    LET lead     == IF isSpaceToken(match[1]) THEN <<match[1]>> ELSE <<>>
        slash    == IndexOf(match, "/")
        pathPart == IF match[1] = "(" THEN SubSeq(match, slash, Len(match))
                    ELSE SubSeq(match, slash + 1, Len(match))
        segments == SelectSeq(splitSlash(pathPart, 1, <<>>), nonEmptySegment)
        n        == Len(segments)
    IN  IF n >= 2
        THEN lead \o relativePart \o <<"...", "/">> \o segments[n-1] \o <<"/">> \o segments[n]
        ELSE match

\* result.replace(pathPatterns[3], callback), scanning from position i
RECURSIVE replaceRelative(_, _)
replaceRelative(t, i) ==
    IF i > Len(t) THEN <<>>
    ELSE LET n == relativeMatchLen(t, i)
         IN  IF n > 0
             THEN relativeReplacement(SubSeq(t, i, i+n-1)) \o replaceRelative(t, i+n)
             ELSE <<t[i]>> \o replaceRelative(t, i+1)

\* simplifyPath(text): the four replacements in the order of the code.  A
\* match of a Windows pattern holds a backslash and a match of the relative
\* pattern a '?', so a text without them passes unchanged.
simplifyPath(text) ==
    LET windows  == IF Includes(text, "\\")
                    THEN replaceWindows(replaceWindows(text, 1, TRUE), 1, FALSE)
                    ELSE text
        absolute == replacePosix(windows, 1)
    IN  IF Includes(absolute, "?") THEN replaceRelative(absolute, 1) ELSE absolute

\* Array.prototype.slice(start)
jsSlice(seq, start) ==
    LET len   == Len(seq)
        begin == IF start < 0 THEN (IF len + start > 0 THEN len + start ELSE 0)
                 ELSE Min(start, len)
    IN  SubSeq(seq, begin + 1, len)

\* count = 50 when the option is left out
DefaultCount == 50

\* the prefix-only line of one entry
prefixLine(e, stripClass, stripMethod) ==
    <<"[", e.namespace, "]">>
    \o (IF Truthy(e.className) /\ ~stripClass THEN <<" ">> \o e.className ELSE <<>>)
    \o (IF Truthy(e.methodName) /\ ~stripMethod THEN <<".">> \o e.methodName ELSE <<>>)

\* the entries copyLogs selects: getLogHistory(namespace).slice(-count)
selectLogs(hist, namespace, count) == jsSlice(getLogHistory(hist, namespace), 0 - count)

\* the text copyLogs builds from the selected entries
exportText(logs, format, simplifyPaths) ==
    LET lines  == [i \in 1..Len(logs) |->
                      IF format = "message-only" THEN logs[i].message
                      ELSE prefixLine(logs[i], FALSE, FALSE)]
        output == JoinTexts(lines, <<"\n">>)
    IN  IF simplifyPaths THEN simplifyPath(output) ELSE output

----------------------------------------------------------------------------
(* Inputs of the logger state machine *)

PluginIds == {"A"}

OverrideNamespaces == {"", "B"}

Namespaces == {"obsidian-plugin", "A", "B"}

\* stack lines of the logger's own functions, as every captured stack has them
InternalFrames ==
    << Frame(<<"getCallerInfo">>, FALSE, TRUE, TRUE),
       Frame(<<"formatPrefixOnly">>, FALSE, TRUE, TRUE),
       Frame(<<"log">>, FALSE, FALSE, TRUE),
       Frame(<<"debug">>, FALSE, FALSE, TRUE) >>

\* The call sites of the host plugin: the arguments after the level and the
\* stack captured there.  1: a method of the (minified) class t of instance w1
\* logs with its instance; 2: a bare function logs a message alone; 3: the
\* free function parseDate logs with component and method names
\* ('DateParser', 'parseDate', 'x'); 4: the same call from a method of t; 5: a
\* method of t logs an object, one of whose getters throws, between two texts.
CallSites ==
    << [args  |-> <<Obj("w1"), Str(<<"a">>)>>,
        stack |-> InternalFrames \o <<Frame(<<"t", ".", "run">>, FALSE, FALSE, TRUE)>>],
       [args  |-> <<Str(<<"b">>)>>,
        stack |-> InternalFrames \o <<Frame(<<"load">>, FALSE, FALSE, TRUE)>>],
       [args  |-> <<Str(<<"DateParser">>), Str(<<"parseDate">>), Str(<<"x">>)>>,
        stack |-> InternalFrames \o <<Frame(<<"parseDate">>, FALSE, FALSE, TRUE)>>],
       [args  |-> <<Str(<<"DateParser">>), Str(<<"parseDate">>), Str(<<"x">>)>>,
        stack |-> InternalFrames \o <<Frame(<<"t", ".", "run">>, FALSE, FALSE, TRUE)>>],
       [args  |-> <<Obj("w1"), Str(<<"a">>), Obj("g1"), Str(<<"z">>)>>,
        stack |-> InternalFrames \o <<Frame(<<"t", ".", "run">>, FALSE, FALSE, TRUE)>>] >>

\* the objects the call sites pass as message parts: g1 is the plain object
\* { id: 'g1', get next() { throw ... } }
SiteHeap ==
    [o \in {"g1"} |->
        HeapObject(FALSE, <<"Object">>, Absent, <<"id", "next">>, <<Str(<<"g1">>), Throws>>)]

\* call sites exercised by the history and the namespace selection
\* specifications
HistorySites == {1, 2}

\* call sites exercised by the gate specification
GateSites == {1}

\* display names handed to registerLoggerClass in the state machine
RegisterNames == {<<"Worker">>}

\* levels handed to setDefaultLogLevel
DefaultLevels == {"warn"}

\* the level argument of enable(); "undefined" takes the default 'debug'
EnableArgs == {"undefined", "error", "warn"}

\* levels emitted in the history specification
HistoryLevels == {"error", "debug"}

\* options.namespace of copyLogs; "undefined" takes the API's own namespace
CopyNamespaces == {"undefined", "B"}

\* options.count of copyLogs ranges over 0..MaxCount and the default
MaxCount == 2

CopyCounts == (0..MaxCount) \cup {DefaultCount}

CopyFormats == {"message-only", "prefix-only"}

\* the argument of clearLogs; "" is a call without argument
ClearArgs == {"", "B"}

\* options.namespace of copyLogs and the argument of clearLogs in the namespace
\* selection specification: own namespace, another one, and '*'
SelectNamespaces == {"undefined", "B", "*"}

SelectClearArgs == {"", "B", "*"}

\* options.count of copyLogs in the namespace selection specification
SelectCounts == {1, DefaultCount}

Call(op, key, arg, num, flag, ret) ==
    [op |-> op, key |-> key, arg |-> arg, num |-> num, flag |-> flag, ret |-> ret]

\* the flat control API is not part of the keyed logger's state machine
flatVars == <<plugins, sharedDEBUG>>

\* a call that writes neither to the console nor to the clipboard
NoOutput ==
    /\ console' = <<>>
    /\ clipboard' = [clipboard EXCEPT !.writes = <<>>]

----------------------------------------------------------------------------
(* The logger state machine *)

Init ==
    /\ config = configInit
    /\ logHistory = <<>>
    /\ classNameMap = classNameMapInit
    /\ windowDEBUG = {}
    /\ console = <<>>
    /\ clipboard \in {[available |-> a, writes |-> <<>>, deferred |-> FALSE,
                        pending |-> 0] : a \in BOOLEAN}
    /\ now = 0
    /\ lastCall = Call("init", "", "", 0, FALSE, "")
    /\ plugins = <<>>
    /\ sharedDEBUG = <<>>

\* initLogger(plugin)
InitLogger(id) ==
    /\ config' = [config EXCEPT !.globalNamespace = id]
    /\ lastCall' = Call("initLogger", "", "", 0, FALSE, "")
    /\ NoOutput
    /\ UNCHANGED <<logHistory, classNameMap, windowDEBUG, now, flatVars>>

\* setNamespaceOverride(namespace)
SetNamespaceOverride(ns) ==
    /\ config' = [config EXCEPT !.namespaceOverride = ns]
    /\ lastCall' = Call("setNamespaceOverride", "", "", 0, FALSE, "")
    /\ NoOutput
    /\ UNCHANGED <<logHistory, classNameMap, windowDEBUG, now, flatVars>>

\* setDefaultLogLevel(level)
SetDefaultLogLevel(level) ==
    /\ config' = setDefaultLogLevel(config, level)
    /\ lastCall' = Call("setDefaultLogLevel", "", level, 0, FALSE, "")
    /\ NoOutput
    /\ UNCHANGED <<logHistory, classNameMap, windowDEBUG, now, flatVars>>

\* initializeDebugSystem(): window.DEBUG[currentPluginNamespace] = loggerDebugAPI
InitializeDebugSystem ==
    /\ WindowDefined
    /\ windowDEBUG' = windowDEBUG \cup {getNamespace(config)}
    /\ lastCall' = Call("initializeDebugSystem", "", "", 0, FALSE, "")
    /\ NoOutput
    /\ UNCHANGED <<config, logHistory, classNameMap, now, flatVars>>

\* window.DEBUG[key].enable(level = 'debug')
Enable(key, arg) ==
    LET level == IF arg = "undefined" THEN "debug" ELSE arg
    IN  /\ key \in windowDEBUG
        /\ config' = [config EXCEPT !.debugEnabled = TRUE, !.currentLogLevel = level]
        /\ lastCall' = Call("enable", "", arg, 0, FALSE, "enabled")
        /\ NoOutput
        /\ UNCHANGED <<logHistory, classNameMap, windowDEBUG, now, flatVars>>

\* window.DEBUG[key].disable()
Disable(key) ==
    /\ key \in windowDEBUG
    /\ config' = [config EXCEPT !.debugEnabled = FALSE, !.currentLogLevel = "error"]
    /\ lastCall' = Call("disable", "", "", 0, FALSE, "disabled")
    /\ NoOutput
    /\ UNCHANGED <<logHistory, classNameMap, windowDEBUG, now, flatVars>>

\* window.DEBUG[key].setLevel(level)
SetLevel(key, level) ==
    /\ key \in windowDEBUG
    /\ config' = setLevel(config, level)
    /\ lastCall' = Call("setLevel", "", level, 0, FALSE, "set")
    /\ NoOutput
    /\ UNCHANGED <<logHistory, classNameMap, windowDEBUG, now, flatVars>>

\* window.DEBUG[key].enabled()
Enabled(key) ==
    /\ key \in windowDEBUG
    /\ lastCall' = Call("enabled", "", "", 0, FALSE,
                        IF apiEnabled(config) THEN "true" ELSE "false")
    /\ NoOutput
    /\ UNCHANGED <<config, logHistory, classNameMap, windowDEBUG, now, flatVars>>

\* window.DEBUG[key].getLevel()
GetLevel(key) ==
    /\ key \in windowDEBUG
    /\ lastCall' = Call("getLevel", "", "", 0, FALSE, apiGetLevel(config))
    /\ NoOutput
    /\ UNCHANGED <<config, logHistory, classNameMap, windowDEBUG, now, flatVars>>

\* registerLoggerClass(instance, originalName)
RegisterLoggerClass(instance, name) ==
    /\ classNameMap' = registerLoggerClass(classNameMap, instance, name)
    /\ lastCall' = Call("registerLoggerClass", "", "", 0, FALSE, "")
    /\ NoOutput
    /\ UNCHANGED <<config, logHistory, windowDEBUG, now, flatVars>>

\* debug/info/warn/error(...args) at call site i: log(level, ...args); the
\* behaviour holds at most `limit` accepted emissions
Emit(level, i, limit) ==
    LET site == CallSites[i]
    IN  /\ now < limit
        /\ IF ~shouldLog(config, windowDEBUG, level)
           THEN /\ lastCall' = Call("emit", "", level, i, FALSE, "suppressed")
                /\ console' = <<>>
                /\ UNCHANGED <<logHistory, now>>
           ELSE IF logParts(config, classNameMap, SiteHeap, site.args, site.stack).raised
           THEN /\ lastCall' = Call("emit", "", level, i, FALSE, "raised")
                /\ console' = <<>>
                /\ UNCHANGED <<logHistory, now>>
           ELSE /\ logHistory' = addLogEntry(logHistory,
                        makeEntry(config, classNameMap, SiteHeap, level, site.args,
                                  site.stack, now + 1))
                /\ console' = <<consoleWrite(config, classNameMap, SiteHeap, level,
                                             site.args, site.stack)>>
                /\ now' = now + 1
                /\ lastCall' = Call("emit", "", level, i, FALSE, "accepted")
        /\ clipboard' = [clipboard EXCEPT !.writes = <<>>]
        /\ UNCHANGED <<config, classNameMap, windowDEBUG, flatVars>>

\* navigator.clipboard.writeText(text): the promise it returns is pending when
\* the clipboard settles its writes later; a clipboard that resolves each write
\* at once leaves nothing in flight (the .then callback is empty)
writeText(clip) == IF clip.deferred THEN clip.pending + 1 ELSE clip.pending

\* fault variant of catchRejection: no .catch on the promise
catchNothing(outcome) == <<>>

\* .catch(err => console.error('Logger: Failed to automatically copy ...', err))
catchRejection(outcome) ==
    IF outcome = "rejected"
    THEN << [method   |-> "error",
             prefix   |-> <<"Logger: Failed to automatically copy logs to clipboard:">>,
             message  |-> <<>>,
             segments |-> 1] >>
    ELSE <<>>

\* window.DEBUG[key].copyLogs({namespace, count, format, simplifyPaths})
CopyLogs(key, nsOpt, count, format, simplifyPaths) ==
    LET namespace == IF nsOpt = "undefined" THEN key ELSE nsOpt
        logs      == selectLogs(logHistory, namespace, count)
        output    == exportText(logs, format, simplifyPaths)
    IN  /\ key \in windowDEBUG
        /\ IF Len(logs) = 0
           THEN /\ lastCall' = Call("copyLogs", namespace, format, count, simplifyPaths,
                                    "No logs found")
                /\ NoOutput
           ELSE IF clipboard.available
                THEN /\ clipboard.pending < MaxPendingWrites
                     /\ clipboard' = [clipboard EXCEPT !.writes = <<output>>,
                                                       !.pending = writeText(clipboard)]
                     /\ console' = <<>>
                     /\ lastCall' = Call("copyLogs", namespace, format, count, simplifyPaths,
                                         "Copied")
                ELSE /\ console' = << [method   |-> "warn",
                                       prefix   |-> <<"Logger: Clipboard API not available">>,
                                       message  |-> <<>>,
                                       segments |-> 1] >>
                     /\ clipboard' = [clipboard EXCEPT !.writes = <<>>]
                     /\ lastCall' = Call("copyLogs", namespace, format, count, simplifyPaths,
                                         "Clipboard API not available")
        /\ UNCHANGED <<config, logHistory, classNameMap, windowDEBUG, now, flatVars>>

\* the promise of one clipboard write in flight resolves or rejects: the
\* .then callback does nothing, the .catch callback reports to the console
SettleWrite(outcome) ==
    /\ clipboard.pending > 0
    /\ clipboard' = [clipboard EXCEPT !.writes = <<>>, !.pending = @ - 1]
    /\ console' = catchRejection(outcome)
    /\ lastCall' = Call("settleWrite", "", outcome, 0, FALSE, "")
    /\ UNCHANGED <<config, logHistory, classNameMap, windowDEBUG, now, flatVars>>

\* window.DEBUG[key].clearLogs(ns)
ClearLogs(key, ns) ==
    LET targetNamespace == IF ns # "" THEN ns ELSE key
    IN  /\ key \in windowDEBUG
        /\ logHistory' = clearLogHistory(logHistory, targetNamespace)
        /\ lastCall' = Call("clearLogs", targetNamespace, ns, 0, FALSE, "cleared")
        /\ NoOutput
        /\ UNCHANGED <<config, classNameMap, windowDEBUG, now, flatVars>>

\* The gate specification: configuration, control surface, class registry and
\* emission, up to MaxGateEmits accepted emissions.
Next ==
    \/ \E id \in PluginIds : InitLogger(id)
    \/ \E ns \in OverrideNamespaces : SetNamespaceOverride(ns)
    \/ \E level \in DefaultLevels : SetDefaultLogLevel(level)
    \/ InitializeDebugSystem
    \/ \E key \in Namespaces, arg \in EnableArgs : Enable(key, arg)
    \/ \E key \in Namespaces : Disable(key)
    \/ \E key \in Namespaces, level \in Levels : SetLevel(key, level)
    \/ \E key \in Namespaces : Enabled(key)
    \/ \E key \in Namespaces : GetLevel(key)
    \/ \E name \in RegisterNames : RegisterLoggerClass("w1", name)
    \/ \E level \in Levels, i \in GateSites : Emit(level, i, MaxGateEmits)

Spec == Init /\ [][Next]_vars

\* The history specification: emission at every call site, export and clearing,
\* up to MaxEmits accepted emissions.
NextHistory ==
    \/ \E ns \in OverrideNamespaces : SetNamespaceOverride(ns)
    \/ InitializeDebugSystem
    \/ \E level \in HistoryLevels, i \in HistorySites : Emit(level, i, MaxEmits)
    \/ \E key \in Namespaces, nsOpt \in CopyNamespaces, count \in CopyCounts,
          format \in CopyFormats, simplifyPaths \in BOOLEAN :
              CopyLogs(key, nsOpt, count, format, simplifyPaths)
    \/ \E key \in Namespaces, ns \in ClearArgs : ClearLogs(key, ns)

SpecHistory == Init /\ [][NextHistory]_vars

\* The namespace selection specification: entries of several namespaces in the
\* buffer, copyLogs and clearLogs by namespace.
NextSelect ==
    \/ \E ns \in OverrideNamespaces : SetNamespaceOverride(ns)
    \/ InitializeDebugSystem
    \/ \E level \in HistoryLevels, i \in HistorySites : Emit(level, i, MaxEmits)
    \/ \E key \in Namespaces, nsOpt \in SelectNamespaces, count \in SelectCounts :
              CopyLogs(key, nsOpt, count, "message-only", FALSE)
    \/ \E key \in Namespaces, ns \in SelectClearArgs : ClearLogs(key, ns)

SpecSelect == Init /\ [][NextSelect]_vars

\* The emitter specification: one emission at any call site, under either
\* namespace and with the instance registered or not.
NextEmit ==
    \/ \E ns \in OverrideNamespaces : SetNamespaceOverride(ns)
    \/ InitializeDebugSystem
    \/ \E key \in Namespaces, arg \in EnableArgs : Enable(key, arg)
    \/ \E name \in RegisterNames : RegisterLoggerClass("w1", name)
    \/ \E level \in HistoryLevels, i \in 1..Len(CallSites) : Emit(level, i, MaxSiteEmits)

SpecEmit == Init /\ [][NextEmit]_vars

\* The clipboard specification: the clipboard settles its writes later than
\* the copyLogs call that started them, and emissions and control calls run in
\* between.
WriteOutcomes == {"resolved", "rejected"}

InitClipboard ==
    /\ config = configInit
    /\ logHistory = <<>>
    /\ classNameMap = classNameMapInit
    /\ windowDEBUG = {}
    /\ console = <<>>
    /\ clipboard = [available |-> TRUE, writes |-> <<>>, deferred |-> TRUE, pending |-> 0]
    /\ now = 0
    /\ lastCall = Call("init", "", "", 0, FALSE, "")
    /\ plugins = <<>>
    /\ sharedDEBUG = <<>>

NextClipboard ==
    \/ InitializeDebugSystem
    \/ \E key \in Namespaces, arg \in EnableArgs : Enable(key, arg)
    \/ \E key \in Namespaces : Disable(key)
    \/ \E key \in Namespaces : Enabled(key)
    \/ \E level \in HistoryLevels, i \in GateSites : Emit(level, i, MaxEmits)
    \/ \E key \in Namespaces, count \in SelectCounts :
           CopyLogs(key, "undefined", count, "message-only", FALSE)
    \/ \E key \in Namespaces : ClearLogs(key, "")
    \/ \E outcome \in WriteOutcomes : SettleWrite(outcome)

SpecClipboard == InitClipboard /\ [][NextClipboard]_vars

\* The emission order specification: log() in the two steps of its body, the
\* append to the history and the console write, under either namespace and
\* with the instance registered or not.

\* the call site debug('DateParser', 'parseDate'): no message part is left
EmptyMessageSite ==
    [args  |-> <<Str(<<"DateParser">>), Str(<<"parseDate">>)>>,
     stack |-> InternalFrames \o <<Frame(<<"parseDate">>, FALSE, FALSE, TRUE)>>]

\* call site 0 is EmptyMessageSite, the others are those of CallSites
stepSite(i) == IF i = 0 THEN EmptyMessageSite ELSE CallSites[i]

StepSites == {0, 1}

\* log() is between its append and its console write
appended == lastCall.op = "emit" /\ lastCall.ret = "appended"

\* log(level, ...args) at call site i, up to addLogEntry (loggers.ts 160-199)
BeginEmit(level, i, limit) ==
    LET site == stepSite(i)
    IN  /\ ~appended
        /\ now < limit
        /\ IF ~shouldLog(config, windowDEBUG, level)
           THEN /\ lastCall' = Call("emit", "", level, i, FALSE, "suppressed")
                /\ UNCHANGED <<logHistory, now>>
           ELSE IF logParts(config, classNameMap, SiteHeap, site.args, site.stack).raised
           THEN /\ lastCall' = Call("emit", "", level, i, FALSE, "raised")
                /\ UNCHANGED <<logHistory, now>>
           ELSE /\ logHistory' = addLogEntry(logHistory,
                        makeEntry(config, classNameMap, SiteHeap, level, site.args,
                                  site.stack, now + 1))
                /\ now' = now + 1
                /\ lastCall' = Call("emit", "", level, i, FALSE, "appended")
        /\ NoOutput
        /\ UNCHANGED <<config, classNameMap, windowDEBUG, flatVars>>

\* the rest of log(): the console write (loggers.ts 201-222)
EndEmit ==
    LET site == stepSite(lastCall.num)
    IN  /\ appended
        /\ console' = <<consoleWrite(config, classNameMap, SiteHeap, lastCall.arg,
                                     site.args, site.stack)>>
        /\ lastCall' = [lastCall EXCEPT !.ret = "accepted"]
        /\ UNCHANGED <<config, logHistory, classNameMap, windowDEBUG, clipboard, now,
                       flatVars>>

\* log() runs to completion: no other call starts between its two steps
NextSteps ==
    \/ ~appended /\ \E ns \in OverrideNamespaces : SetNamespaceOverride(ns)
    \/ ~appended /\ InitializeDebugSystem
    \/ ~appended /\ \E key \in Namespaces : Enable(key, "undefined")
    \/ ~appended /\ \E name \in RegisterNames : RegisterLoggerClass("w1", name)
    \/ \E level \in HistoryLevels, i \in StepSites : BeginEmit(level, i, MaxEmits)
    \/ EndEmit

InitWithClipboard == Init /\ clipboard.available

SpecSteps == InitWithClipboard /\ [][NextSteps]_vars

\* The level specification: the default level and the level of the control
\* API over every severity, and emission at one call site.
NextLevels ==
    \/ InitializeDebugSystem
    \/ \E level \in Levels : SetDefaultLogLevel(level)
    \/ \E key \in Namespaces, arg \in EnableArgs : Enable(key, arg)
    \/ \E key \in Namespaces : Disable(key)
    \/ \E key \in Namespaces, level \in Levels : SetLevel(key, level)
    \/ \E key \in Namespaces : GetLevel(key)
    \/ \E level \in Levels, i \in GateSites : Emit(level, i, MaxGateEmits)

SpecLevels == InitWithClipboard /\ [][NextLevels]_vars

----------------------------------------------------------------------------
(* Properties of the gate *)

\* the entry stored last
LastEntry == logHistory[Len(logHistory)]

C1_GateStep ==
    (lastCall'.op = "emit" /\ lastCall'.arg # "error") =>
        IF /\ getNamespace(config) \in windowDEBUG
           /\ config.debugEnabled
           /\ levels(lastCall'.arg) <= levels(config.currentLogLevel)
        THEN /\ lastCall'.ret = "accepted"
             /\ logHistory' # <<>>
             /\ logHistory' = addLogEntry(logHistory, logHistory'[Len(logHistory')])
             /\ logHistory'[Len(logHistory')].level = lastCall'.arg
             /\ Len(console') = 1
        ELSE /\ lastCall'.ret = "suppressed"
             /\ logHistory' = logHistory
             /\ console' = <<>>

C2_ErrorAlwaysAccepted ==
    [][ (lastCall'.op = "emit" /\ lastCall'.arg = "error") =>
            /\ lastCall'.ret = "accepted"
            /\ Len(logHistory') = Len(logHistory) + 1
            /\ SubSeq(logHistory', 1, Len(logHistory)) = logHistory
            /\ logHistory'[Len(logHistory')].level = "error"
            /\ Len(console') = 1
            /\ console'[1].method = "error" ]_vars

\* C2: an error emit accepted before initializeDebugSystem ran, logging disabled
C2_ErrorBeforeInit ==
    /\ lastCall.op = "emit" /\ lastCall.arg = "error" /\ lastCall.ret = "accepted"
    /\ windowDEBUG = {} /\ ~config.debugEnabled
    /\ Len(logHistory) = 1 /\ Len(console) = 1

\* the instance of call site 1 is registered under the display name Worker
WorkerRegistered == getRegisteredClassName(classNameMap, Obj("w1")) = <<"Worker">>

\* C5 (as stated): with the instance registered as Worker, a debug emit while
\* logging is disabled at level warn records nothing, and the same emit right
\* after setLevel('debug') appends exactly one entry whose className is Worker.
\* The control API is the one registered under the current namespace.
C5_WorkerScenario ==
    [][ (/\ WorkerRegistered
         /\ getNamespace(config) \in windowDEBUG
         /\ lastCall'.op = "emit" /\ lastCall'.arg = "debug") =>
            /\ (~config.debugEnabled /\ config.currentLogLevel = "warn") =>
                   (logHistory' = logHistory /\ console' = <<>>)
            /\ (lastCall.op = "setLevel" /\ lastCall.arg = "debug") =>
                   /\ Len(logHistory') = Len(logHistory) + 1
                   /\ logHistory'[Len(logHistory')].className = <<"Worker">> ]_vars

\* C5: the entry recorded for the registered instance after setLevel('debug')
\* carries the class name read from the stack, not the registered name
C5_EntryHoldsStackName ==
    /\ WorkerRegistered
    /\ lastCall.op = "emit" /\ lastCall.arg = "debug" /\ lastCall.ret = "accepted"
    /\ Len(logHistory) = 1
    /\ LastEntry.className = <<"t">>
    /\ LastEntry.formattedMessage = <<"[", "obsidian-plugin", "]", " ", "Worker", ".", "run", ":", " ", "a">>

\* the level enable(arg) asks for
enableLevel(arg) == IF arg = "undefined" THEN "debug" ELSE arg

\* C6, after each call: enable(L) leaves enabled() true and getLevel() = L
\* (debug when L is left out); disable() leaves enabled() false and getLevel()
\* null; while logging is disabled an emit is accepted exactly when its level
\* is error.
C6_AfterCall ==
    /\ lastCall.op = "enable" =>
           (apiEnabled(config) /\ apiGetLevel(config) = enableLevel(lastCall.arg))
    /\ lastCall.op = "disable" =>
           (~apiEnabled(config) /\ apiGetLevel(config) = NoLevel)
    /\ (lastCall.op = "emit" /\ ~apiEnabled(config)) =>
           ((lastCall.ret = "accepted") <=> (lastCall.arg = "error"))

\* C6, step by step: logging that is disabled stays disabled until the next
\* enable or setLevel.
C6_DisabledUntilEnabled ==
    (~apiEnabled(config) /\ apiEnabled(config')) => lastCall'.op \in {"enable", "setLevel"}

\* C6: enable/disable/enabled/getLevel behave as documented and a disabled
\* logger shows errors only, until the next enable or setLevel.
C6_EnableDisable == []C6_AfterCall /\ [][C6_DisabledUntilEnabled]_vars

\* C6: after disable() under a registered namespace an error emit is accepted
\* while getLevel() reports null
C6_ErrorVisibleWhileDisabled ==
    /\ lastCall.op = "emit" /\ lastCall.arg = "error" /\ lastCall.ret = "accepted"
    /\ getNamespace(config) \in windowDEBUG
    /\ ~apiEnabled(config) /\ apiGetLevel(config) = NoLevel
    /\ config.currentLogLevel = "error" /\ config.defaultLogLevel = "warn"

\* C27, the registry: a control API is registered only by
\* initializeDebugSystem, under the namespace current when it runs, and is
\* never removed
C27_RegisteredAtInitialization ==
    windowDEBUG' # windowDEBUG =>
        /\ lastCall'.op = "initializeDebugSystem"
        /\ windowDEBUG' = windowDEBUG \cup {getNamespace(config)}

\* C27, the gate: a non-error emit is accepted only when the namespace
\* current at the emit has a registered control API
C27_AcceptedUnderRegisteredNamespace ==
    (lastCall'.op = "emit" /\ lastCall'.arg # "error" /\ lastCall'.ret = "accepted") =>
        getNamespace(config) \in windowDEBUG

C28_SetLevel ==
    [][ lastCall'.op = "setLevel" =>
            /\ config'.currentLogLevel = lastCall'.arg
            /\ config'.debugEnabled = (config.debugEnabled \/ lastCall'.arg # "error")
            /\ (~config.debugEnabled /\ lastCall'.arg = "error") =>
                   apiGetLevel(config') = NoLevel
            /\ config' = [config EXCEPT !.currentLogLevel = config'.currentLogLevel,
                                        !.debugEnabled = config'.debugEnabled] ]_vars

\* C28: setLevel('info') has just been called and logging is enabled at level
\* info
C28_EnabledBySetLevel ==
    /\ lastCall.op = "setLevel" /\ lastCall.arg = "info"
    /\ config.debugEnabled /\ config.currentLogLevel = "info"
    /\ apiGetLevel(config) = "info"

\* C29, the call: setDefaultLogLevel(L) sets defaultLogLevel to L and leaves
\* debugEnabled alone; on a disabled logger it also sets currentLogLevel to L
\* and still no non-error level passes the gate; on an enabled logger
\* currentLogLevel and the gate stay as they were
C29_DefaultLevelStep ==
    lastCall'.op = "setDefaultLogLevel" =>
        /\ config'.defaultLogLevel = lastCall'.arg
        /\ config'.debugEnabled = config.debugEnabled
        /\ IF ~config.debugEnabled
           THEN /\ config'.currentLogLevel = lastCall'.arg
                /\ \A level \in Levels \ {"error"} :
                       ~shouldLog(config', windowDEBUG', level)
           ELSE /\ config'.currentLogLevel = config.currentLogLevel
                /\ \A level \in Levels :
                       shouldLog(config', windowDEBUG', level)
                           = shouldLog(config, windowDEBUG, level)

\* C29: setDefaultLogLevel never changes the enabled flag; while logging is
\* disabled it sets the default and the current level and no non-error emit
\* is accepted, while logging is enabled it sets the default level only.
C29_DefaultLevelKeepsGate ==
    /\ [][C29_DefaultLevelStep]_vars
    /\ []((lastCall.op = "emit" /\ lastCall.arg # "error" /\ ~config.debugEnabled)
              => lastCall.ret = "suppressed")

\* C29: the control API is registered, logging is disabled, the default and
\* the current level are debug, and a warn emit has been suppressed
C29_DisabledDespiteDefaultLevel ==
    /\ lastCall.op = "emit" /\ lastCall.arg = "warn" /\ lastCall.ret = "suppressed"
    /\ getNamespace(config) \in windowDEBUG
    /\ ~config.debugEnabled
    /\ config.defaultLogLevel = "debug" /\ config.currentLogLevel = "debug"

----------------------------------------------------------------------------
(* Properties of the history buffer and its export *)

\* C3: after every call the history holds at most MAX_LOG_ENTRIES entries.
C3_HistoryBounded == Len(logHistory) <= MAX_LOG_ENTRIES

\* C3: the buffer is full after more accepted emissions than it can hold
C3_FullAfterEviction == Len(logHistory) = MAX_LOG_ENTRIES /\ now > MAX_LOG_ENTRIES

\* C4, in every state: the buffered entries are in emission order.
C4_InEmissionOrder ==
    \A i \in 1..Len(logHistory) :
        /\ logHistory[i].timestamp \in 1..now
        /\ i > 1 => logHistory[i-1].timestamp < logHistory[i].timestamp

\* C4, step by step: an accepted emission puts its entry last, keeps the order
\* of the others, and evicts exactly the oldest entry when the buffer is full.
C4_AppendEvictsOldest ==
    now' = now + 1 =>
        /\ logHistory' # <<>>
        /\ logHistory'[Len(logHistory')].timestamp = now'
        /\ SubSeq(logHistory', 1, Len(logHistory') - 1)
               = IF Len(logHistory) >= MAX_LOG_ENTRIES THEN Tail(logHistory) ELSE logHistory

\* C4: the history is the sequence of the most recent min(N, MAX_LOG_ENTRIES)
\* accepted entries in emission order.
C4_MostRecentInOrder == []C4_InEmissionOrder /\ [][C4_AppendEvictsOldest]_vars

\* C4: more emissions than the capacity and no entry cleared: the buffer holds
\* exactly the last MAX_LOG_ENTRIES of them
C4_HoldsMostRecent ==
    /\ now > MAX_LOG_ENTRIES
    /\ Len(logHistory) = MAX_LOG_ENTRIES
    /\ \A i \in 1..MAX_LOG_ENTRIES : logHistory[i].timestamp = now - MAX_LOG_ENTRIES + i

\* the messages of the most recent min(count, m) entries of namespace, joined
\* by newlines
recentMessages(namespace, count) ==
    LET matching == getLogHistory(logHistory, namespace)
        m        == Len(matching)
        k        == Min(count, m)
    IN  JoinTexts([i \in 1..k |-> matching[m - k + i].message], <<"\n">>)

\* C10 (as stated): copyLogs({namespace, count, format: 'message-only'}) hands
\* the clipboard the messages of the most recent min(count, m) matching
\* entries, in order, joined by newlines; nothing when that number is 0.
C10_ExportsMostRecent ==
    (/\ lastCall.op = "copyLogs" /\ lastCall.arg = "message-only"
     /\ lastCall.flag /\ clipboard.available) =>
        IF Min(lastCall.num, Len(getLogHistory(logHistory, lastCall.key))) = 0
        THEN clipboard.writes \in {<<>>, << <<>> >>}
        ELSE clipboard.writes = <<recentMessages(lastCall.key, lastCall.num)>>

\* C10: count 0 over two matching entries exports both messages
C10_CountZeroExportsAll ==
    /\ lastCall.op = "copyLogs" /\ lastCall.arg = "message-only" /\ lastCall.num = 0
    /\ Len(getLogHistory(logHistory, lastCall.key)) = 2
    /\ clipboard.writes = <<recentMessages(lastCall.key, 2)>>

\* the namespaces of the buffered entries
bufferedNamespaces == {logHistory[i].namespace : i \in 1..Len(logHistory)}

\* C11 (as stated): copyLogs({namespace: '*', count, format: 'message-only'})
\* with count > 0 selects among the entries of all namespaces: the clipboard
\* receives the messages of the most recent min(count, n) of the n buffered
\* entries.
C11_WildcardSelectsAll ==
    (/\ lastCall.op = "copyLogs" /\ lastCall.key = "*" /\ lastCall.arg = "message-only"
     /\ lastCall.num > 0 /\ clipboard.available /\ logHistory # <<>>) =>
        clipboard.writes = <<recentMessages("", lastCall.num)>>

\* C11: entries of two namespaces are buffered and copyLogs({namespace: '*'})
\* finds none of them
C11_WildcardSelectsNothing ==
    /\ lastCall.op = "copyLogs" /\ lastCall.key = "*" /\ lastCall.num > 0
    /\ Cardinality(bufferedNamespaces) = 2
    /\ lastCall.ret = "No logs found"
    /\ clipboard.writes = <<>>

\* C12 (as stated): clearLogs(ns) with a specific namespace removes exactly the
\* entries of ns and keeps the others in order; clearLogs() and clearLogs('*')
\* empty the buffer.
C12_ClearRemoves ==
    [][ lastCall'.op = "clearLogs" =>
            IF lastCall'.arg \in {"", "*"}
            THEN logHistory' = <<>>
            ELSE logHistory' = SelectSeq(logHistory,
                                         LAMBDA e : e.namespace # lastCall'.arg) ]_vars

\* C12: clearLogs('*') has just returned and the entries of two namespaces are
\* still buffered
C12_WildcardClearsNothing ==
    /\ lastCall.op = "clearLogs" /\ lastCall.arg = "*"
    /\ Cardinality(bufferedNamespaces) = 2

\* C22: when no buffered entry has the requested namespace, copyLogs returns
\* the 'No logs found' message, writes neither to the clipboard nor to the
\* console, and leaves the history buffer and the configuration as they were.
C22_NoMatchNoExport ==
    [][ (/\ lastCall'.op = "copyLogs"
         /\ \A i \in 1..Len(logHistory) : logHistory[i].namespace # lastCall'.key) =>
            /\ lastCall'.ret = "No logs found"
            /\ clipboard'.writes = <<>>
            /\ console' = <<>>
            /\ logHistory' = logHistory
            /\ config' = config ]_vars

\* C22: entries of another namespace are buffered, the clipboard is available,
\* and copyLogs({namespace: 'B'}) has answered 'No logs found'
C22_OtherNamespaceBuffered ==
    /\ lastCall.op = "copyLogs" /\ lastCall.key = "B"
    /\ logHistory # <<>> /\ "B" \notin bufferedNamespaces
    /\ clipboard.available
    /\ lastCall.ret = "No logs found"
    /\ clipboard.writes = <<>>

\* the logger state a caller can observe or change: everything but the
\* console and the clipboard
loggerState == <<config, logHistory, classNameMap, windowDEBUG, now>>

\* C23, the start of a write: copyLogs returns 'Copied' while the write it
\* started is still in flight, and has written nothing to the console
C23_ReturnsBeforeSettlement ==
    (lastCall'.op = "copyLogs" /\ lastCall'.ret = "Copied") =>
        /\ clipboard'.pending = clipboard.pending + 1
        /\ console' = <<>>
        /\ loggerState' = loggerState

\* C23, the completion of a write: it changes nothing of the logger state; a
\* rejection is one console.error line and a resolution is silent
C23_SettlementIsLocal ==
    lastCall'.op = "settleWrite" =>
        /\ loggerState' = loggerState
        /\ clipboard'.pending = clipboard.pending - 1
        /\ IF lastCall'.arg = "rejected"
           THEN Len(console') = 1 /\ console'[1].method = "error"
           ELSE console' = <<>>

\* C23, the calls in between: an emission or a control call made while a
\* write is in flight leaves the write in flight and answers from the logger
\* state alone
C23_InterleavedCalls ==
    (clipboard.pending > 0 /\ lastCall'.op \notin {"copyLogs", "settleWrite"}) =>
        /\ clipboard'.pending = clipboard.pending
        /\ lastCall'.op = "emit" =>
               /\ (lastCall'.ret = "accepted") =
                      shouldLog(config, windowDEBUG, lastCall'.arg)
               /\ lastCall'.ret = "accepted" =>
                      /\ Len(console') = 1
                      /\ console'[1].method # "error" \/ lastCall'.arg = "error"
        /\ lastCall'.op = "enabled" =>
               lastCall'.ret = (IF config.debugEnabled THEN "true" ELSE "false")
        /\ lastCall'.op = "clearLogs" => logHistory' = <<>>

\* C23: the clipboard write started by copyLogs is fire-and-forget: copyLogs
\* has returned before the write settles, a rejection is only reported to the
\* console, and emissions and control calls made while the write is in flight
\* see and produce the logger state they would after its completion.
C23_FireAndForget ==
    [][C23_ReturnsBeforeSettlement /\ C23_SettlementIsLocal /\ C23_InterleavedCalls]_vars

\* C23: an emission has just been accepted and buffered while two clipboard
\* writes are in flight
C23_EmitWhileInFlight ==
    /\ lastCall.op = "emit" /\ lastCall.ret = "accepted"
    /\ clipboard.pending = 2
    /\ Len(console) = 1
    /\ Len(logHistory) = 2

----------------------------------------------------------------------------
(* Properties of the emitter *)

\* the parsed arguments of the call site of the latest emit
lastSiteArgs == parseLogArgs(CallSites[lastCall.num].args)

\* C13 (as stated): an accepted emit on the static-function path renders the
\* prefix '[ns] <component>.<identifier>:' and stores class = component and
\* method = identifier, whatever the captured stack.
C13_StaticUsesOverrides ==
    (/\ lastCall.op = "emit" /\ lastCall.ret = "accepted"
     /\ isStaticCall(lastSiteArgs)) =>
        /\ LastEntry.className = lastSiteArgs.component
        /\ LastEntry.methodName = lastSiteArgs.logArgs[1].text
        /\ console[1].prefix = <<"[", getNamespace(config), "]", " ">>
                                  \o lastSiteArgs.component \o <<".">>
                                  \o lastSiteArgs.logArgs[1].text \o <<":">>

\* C13: the entry of ('DateParser', 'parseDate', 'x') is stored with class
\* DateParser and method parseDate while the prefix written to the console
\* does not name DateParser
C13_StaticPrefixFromStack ==
    /\ lastCall.op = "emit" /\ lastCall.ret = "accepted"
    /\ isStaticCall(lastSiteArgs)
    /\ LastEntry.className = <<"DateParser">>
    /\ LastEntry.methodName = <<"parseDate">>
    /\ ~Includes(console[1].prefix, "DateParser")

\* C26, the first step: an emission the gate lets through appends one entry
\* (evicting the oldest of a full buffer) before anything is written to the
\* console; the entry carries the level of the call and the namespace current
\* at the call
C26_AppendFirst ==
    (lastCall'.op = "emit" /\ lastCall'.ret = "appended") =>
        /\ logHistory' # <<>>
        /\ logHistory' \in { Append(logHistory, logHistory'[Len(logHistory')]),
                             Append(SubSeq(logHistory, 2, Len(logHistory)),
                                    logHistory'[Len(logHistory')]) }
        /\ console' = <<>>
        /\ logHistory'[Len(logHistory')].level = lastCall'.arg
        /\ logHistory'[Len(logHistory')].namespace = getNamespace(config)

\* C26, the second step: one console write follows the append and leaves the
\* history alone; the formattedMessage of the entry is the prefix written,
\* a space and the message, and an empty message is written as the prefix
\* segment alone
C26_WriteSecond ==
    (lastCall'.op = "emit" /\ lastCall'.ret = "accepted") =>
        /\ appended
        /\ logHistory' = logHistory
        /\ Len(console') = 1
        /\ console'[1].method = lastCall'.arg
        /\ LastEntry.formattedMessage =
               console'[1].prefix \o <<" ">> \o LastEntry.message
        /\ IF LastEntry.message = <<>>
           THEN console'[1].segments = 1
           ELSE console'[1].segments = 2 /\ console'[1].message = LastEntry.message

\* C26: every accepted emit appends exactly one LogEntry and then performs
\* exactly one console write; the entry holds the level, the namespace current
\* at emission and the prefix followed by the message, and an empty message
\* is written to the console as the prefix alone.
C26_AppendThenWrite ==
    /\ [][C26_AppendFirst /\ C26_WriteSecond]_vars
    /\ [](lastCall.op = "emit" => lastCall.ret \in {"suppressed", "appended", "accepted"})

\* C26: debug('DateParser', 'parseDate') under namespace B has evicted the
\* oldest entry of a full buffer and has written its prefix alone
C26_EmptyMessageWritten ==
    /\ lastCall.op = "emit" /\ lastCall.ret = "accepted" /\ lastCall.num = 0
    /\ lastCall.arg = "debug"
    /\ now > MAX_LOG_ENTRIES /\ Len(logHistory) = MAX_LOG_ENTRIES
    /\ LastEntry.namespace = "B"
    /\ LastEntry.message = <<>>
    /\ console[1].segments = 1

----------------------------------------------------------------------------
(* The flat control API shared by several plugins (Object.assign merge) *)

\* the plugins that bundle their own copy of the logger
PluginNames == {"p", "q"}

\* getNamespace() inside the copy bundled by plugin
namespaceOf(plugin) == IF plugin = "p" THEN "P" ELSE "Q"

\* the namespace arguments of the flat API: the plugins' own, an unknown one
\* and the wildcard
FlatNamespaces == {"P", "Q", "Z", "*"}

\* frames the engine allows before it throws RangeError
MaxCallDepth == 3

\* window.DEBUG before any initializeDebugSystem()
NoSharedDEBUG == [exists |-> FALSE, owner |-> "", preExistingDebug |-> "undefined"]

\* Which copy's handler answers window.DEBUG.<method>(ns, ...).  The handlers
\* in the object are those of `owner`, whose closure captured preExistingDebug;
\* a captured object is window.DEBUG itself, so preExistingDebug.<method> is
\* looked up in the same object when the call is made.
RECURSIVE resolveHandler(_, _, _)
resolveHandler(shared, ns, depth) ==
    IF ns = namespaceOf(shared.owner) \/ ns = "*" THEN shared.owner
    ELSE IF shared.preExistingDebug = "object"
         THEN IF depth = 0 THEN "RangeError"
              ELSE resolveHandler(shared, ns, depth - 1)
         ELSE "not recognized"

InitRegistry ==
    /\ config = configInit
    /\ logHistory = <<>>
    /\ classNameMap = classNameMapInit
    /\ windowDEBUG = {}
    /\ console = <<>>
    /\ clipboard = [available |-> TRUE, writes |-> <<>>, deferred |-> FALSE, pending |-> 0]
    /\ now = 0
    /\ lastCall = Call("init", "", "", 0, FALSE, "")
    /\ plugins = [p \in PluginNames |->
                     [installed |-> FALSE, debugEnabled |-> FALSE, currentLogLevel |-> "error"]]
    /\ sharedDEBUG = NoSharedDEBUG

loggerVars == <<config, logHistory, classNameMap, windowDEBUG, console, clipboard, now>>

\* initializeDebugSystem() in the copy of plugin: capture window.DEBUG, then
\* Object.assign(window.DEBUG, loggerDebugAPI)
FlatInitializeDebugSystem(plugin) ==
    /\ sharedDEBUG' = [exists |-> TRUE, owner |-> plugin,
                       preExistingDebug |-> IF sharedDEBUG.exists THEN "object"
                                            ELSE "undefined"]
    /\ plugins' = [plugins EXCEPT ![plugin].installed = TRUE]
    /\ lastCall' = Call("initializeDebugSystem", "", "", 0, FALSE, plugin)
    /\ UNCHANGED loggerVars

\* window.DEBUG.enable(ns, level = 'debug')
FlatEnable(ns, arg) ==
    LET h == resolveHandler(sharedDEBUG, ns, MaxCallDepth)
    IN  /\ sharedDEBUG.exists
        /\ plugins' = IF h \in PluginNames
                      THEN [plugins EXCEPT ![h].debugEnabled = TRUE,
                                           ![h].currentLogLevel =
                                               IF arg = "undefined" THEN "debug" ELSE arg]
                      ELSE plugins
        /\ lastCall' = Call("enable", ns, arg, 0, FALSE, h)
        /\ UNCHANGED <<loggerVars, sharedDEBUG>>

\* window.DEBUG.disable(ns)
FlatDisable(ns) ==
    LET h == resolveHandler(sharedDEBUG, ns, MaxCallDepth)
    IN  /\ sharedDEBUG.exists
        /\ plugins' = IF h \in PluginNames
                      THEN [plugins EXCEPT ![h].debugEnabled = FALSE,
                                           ![h].currentLogLevel = "error"]
                      ELSE plugins
        /\ lastCall' = Call("disable", ns, "", 0, FALSE, h)
        /\ UNCHANGED <<loggerVars, sharedDEBUG>>

\* window.DEBUG.enabled(ns)
FlatEnabled(ns) ==
    LET h == resolveHandler(sharedDEBUG, ns, MaxCallDepth)
    IN  /\ sharedDEBUG.exists
        /\ lastCall' = Call("enabled", ns,
                            IF h = "RangeError" THEN "throws"
                            ELSE IF h \in PluginNames /\ plugins[h].debugEnabled THEN "true"
                            ELSE "false",
                            0, FALSE, h)
        /\ UNCHANGED <<loggerVars, plugins, sharedDEBUG>>

\* window.DEBUG.setLevel(ns, level)
FlatSetLevel(ns, level) ==
    LET h == resolveHandler(sharedDEBUG, ns, MaxCallDepth)
    IN  /\ sharedDEBUG.exists
        /\ plugins' = IF h \in PluginNames
                      THEN [plugins EXCEPT ![h].currentLogLevel = level,
                                           ![h].debugEnabled =
                                               IF ~plugins[h].debugEnabled /\ level # "error"
                                               THEN TRUE ELSE plugins[h].debugEnabled]
                      ELSE plugins
        /\ lastCall' = Call("setLevel", ns, level, 0, FALSE, h)
        /\ UNCHANGED <<loggerVars, sharedDEBUG>>

\* window.DEBUG.getLevel(ns)
FlatGetLevel(ns) ==
    LET h == resolveHandler(sharedDEBUG, ns, MaxCallDepth)
    IN  /\ sharedDEBUG.exists
        /\ lastCall' = Call("getLevel", ns,
                            IF h = "RangeError" THEN "throws"
                            ELSE IF h \in PluginNames /\ plugins[h].debugEnabled
                                 THEN plugins[h].currentLogLevel
                            ELSE NoLevel,
                            0, FALSE, h)
        /\ UNCHANGED <<loggerVars, plugins, sharedDEBUG>>

NextRegistry ==
    \/ \E plugin \in PluginNames : FlatInitializeDebugSystem(plugin)
    \/ \E ns \in FlatNamespaces, arg \in EnableArgs : FlatEnable(ns, arg)
    \/ \E ns \in FlatNamespaces : FlatDisable(ns)
    \/ \E ns \in FlatNamespaces : FlatEnabled(ns)
    \/ \E ns \in FlatNamespaces, level \in Levels : FlatSetLevel(ns, level)
    \/ \E ns \in FlatNamespaces : FlatGetLevel(ns)

SpecRegistry == InitRegistry /\ [][NextRegistry]_vars

\* the control operations of the flat API
FlatOps == {"enable", "disable", "enabled", "setLevel", "getLevel"}

\* C7 (as stated): a control operation addressed to the namespace of a plugin
\* that installed its API earlier, received by the handlers of another
\* plugin, ends with the result of the earlier plugin's handler: no installed
\* namespace is shadowed by a later installation.
C7_ForwardedToEarlierHandler ==
    \A plugin \in PluginNames :
        (/\ lastCall.op \in FlatOps
         /\ plugins[plugin].installed
         /\ lastCall.key = namespaceOf(plugin)) => lastCall.ret = plugin

\* C7: both plugins installed; enable() for the namespace of the first never
\* reaches its handler: the receiving handler forwards to itself until the
\* call stack overflows, and the first plugin stays disabled
C7_ForwardingOverflows ==
    /\ plugins["p"].installed /\ plugins["q"].installed
    /\ sharedDEBUG.owner = "q"
    /\ lastCall.op = "enable" /\ lastCall.key = "P" /\ lastCall.ret = "RangeError"
    /\ ~plugins["p"].debugEnabled

----------------------------------------------------------------------------
(* The class registry on its own *)

\* the instance argument: every object, and "" for null/undefined
RegistryInstances == Objects \cup {""}

\* the originalName argument, '' included
RegistryNames == {<<>>, <<"Worker">>, <<"Panel">>}

\* getRegisteredClassName(instance)
GetRegisteredClassName(instance) ==
    /\ lastCall' = [op |-> "getRegisteredClassName", key |-> instance,
                    result |-> lookupRegistered(classNameMap, instance)]
    /\ NoOutput
    /\ UNCHANGED <<config, logHistory, classNameMap, windowDEBUG, now, flatVars>>

NextClassRegistry ==
    \/ \E instance \in RegistryInstances, name \in RegistryNames :
           RegisterLoggerClass(instance, name)
    \/ \E instance \in RegistryInstances : GetRegisteredClassName(instance)

SpecClassRegistry == Init /\ [][NextClassRegistry]_vars

\* C9, the result of resolve: the direct association if there is one, else that
\* of the constructor, else absent.
C9_ResolveResult ==
    lastCall.op = "getRegisteredClassName" =>
        LET o    == lastCall.key
            ctor == IF o = "" THEN "" ELSE constructorOf(o)
        IN  IF o # "" /\ classNameMap[o] # Absent
            THEN lastCall.result = classNameMap[o]
            ELSE IF ctor # "" /\ classNameMap[ctor] # Absent
                 THEN lastCall.result = classNameMap[ctor]
                 ELSE lastCall.result = Absent

\* C9, step by step: resolve leaves the registry as it is, and register with an
\* absent instance or an empty name changes nothing.
C9_RegistryUntouched ==
    /\ lastCall'.op = "getRegisteredClassName" => classNameMap' = classNameMap
    /\ \A instance \in RegistryInstances, name \in RegistryNames :
           (RegisterLoggerClass(instance, name) /\ (instance = "" \/ name = <<>>))
               => classNameMap' = classNameMap

\* C9: resolve returns the direct name, else the constructor's, else absent,
\* never changes the registry, and register is a no-op on an empty argument.
C9_ResolveAndRegister == []C9_ResolveResult /\ [][C9_RegistryUntouched]_vars

\* C9: an instance registered directly as Worker while its constructor is
\* registered as Panel resolves to Worker
C9_DirectBeforeConstructor ==
    /\ lastCall.op = "getRegisteredClassName" /\ lastCall.key = "w1"
    /\ classNameMap["w1"] = <<"Worker">> /\ classNameMap["K"] = <<"Panel">>
    /\ lastCall.result = <<"Worker">>

----------------------------------------------------------------------------
(* The registration specification: sequences of registerLoggerClass calls *)

\* Register calls of one sequence.
MaxRegisterCalls == 3

\* the instances handed to registerLoggerClass: the instances of the class K
\* and an object without a constructor
ClassInstances == {"w1", "w2", "w3", "bare"}

\* the calls a sequence is made of; an empty name registers nothing
RegisterCalls == [instance : ClassInstances, name : RegistryNames]

InitRegistrations ==
    /\ config = configInit
    /\ logHistory = <<>>
    /\ classNameMap = classNameMapInit
    /\ windowDEBUG = {}
    /\ console = <<>>
    /\ clipboard = [available |-> TRUE, writes |-> <<>>, deferred |-> FALSE, pending |-> 0]
    /\ now = 0
    /\ plugins = <<>>
    /\ sharedDEBUG = <<>>
    /\ \E n \in 1..MaxRegisterCalls :
           \E calls \in [1..n -> RegisterCalls] :
               lastCall = [op |-> "calls", calls |-> calls, done |-> 0]

\* the next call of the sequence: registerLoggerClass(instance, name)
RegisterNext ==
    LET call == lastCall.calls[lastCall.done + 1]
    IN  /\ lastCall.done < Len(lastCall.calls)
        /\ classNameMap' = registerLoggerClass(classNameMap, call.instance, call.name)
        /\ lastCall' = [lastCall EXCEPT !.op = "registerLoggerClass", !.done = @ + 1]
        /\ NoOutput
        /\ UNCHANGED <<config, logHistory, windowDEBUG, now, flatVars>>

NextRegistrations == RegisterNext

SpecRegistrations == InitRegistrations /\ [][NextRegistrations]_vars

\* the calls made so far that registered something for an instance accepted
\* by `for`, in order
registrationsFor(for(_)) ==
    SelectSeq(SubSeq(lastCall.calls, 1, lastCall.done),
              LAMBDA call : call.name # <<>> /\ for(call.instance))

\* the name of the most recent of some registrations (absent when none)
mostRecent(registrations) ==
    IF registrations = <<>> THEN Absent ELSE registrations[Len(registrations)].name

\* the name of the most recent registration of o itself
ownName(o) == mostRecent(registrationsFor(LAMBDA instance : instance = o))

\* the name of the most recent registration of any instance of o's class
classMateName(o) ==
    mostRecent(registrationsFor(LAMBDA instance :
        constructorOf(o) # "" /\ constructorOf(instance) = constructorOf(o)))

----------------------------------------------------------------------------
(* The prefix formatter on its own *)

\* display names registered for the formatter: plain, dotted, and the name
\* the stack shows
FormatNames == {<<"Worker">>, <<"ui", ".", "Panel">>, <<"t">>}

\* The stacks the formatter is called under: 1 a method of class t; 2 a
\* method of t whose name marks a callback; 3 an EventEmitter dispatch; 4 a
\* bare function; 5 nothing but the logger's own frames.
FormatStacks ==
    << InternalFrames \o <<Frame(<<"t", ".", "run">>, FALSE, FALSE, TRUE)>>,
       InternalFrames \o <<Frame(<<"t", ".", "onCallback">>, FALSE, FALSE, TRUE)>>,
       InternalFrames \o <<Frame(<<"EventEmitter", ".", "emit">>, FALSE, FALSE, TRUE)>>,
       InternalFrames \o <<Frame(<<"load">>, FALSE, FALSE, TRUE)>>,
       InternalFrames >>

\* the message handed to formatPrefixCustom: none, or one word
FormatMessages == {<<>>, <<"m">>}

\* formatPrefixOnly(undefined, instance) and formatPrefixCustom(undefined,
\* instance, message) called under stack s
FormatPrefix(instance, s, message) ==
    /\ lastCall' = [op      |-> "formatPrefix",
                    key     |-> instance,
                    num     |-> s,
                    message |-> message,
                    only    |-> formatPrefixOnly(config, classNameMap, Absent, Obj(instance),
                                                 FormatStacks[s]),
                    custom  |-> formatPrefixCustom(config, classNameMap, Absent,
                                                   Obj(instance), message, FormatStacks[s])]
    /\ NoOutput
    /\ UNCHANGED <<config, logHistory, classNameMap, windowDEBUG, now, flatVars>>

NextFormat ==
    \/ \E ns \in OverrideNamespaces : SetNamespaceOverride(ns)
    \/ \E instance \in {"w1", "w2"}, name \in FormatNames : RegisterLoggerClass(instance, name)
    \/ \E instance \in {"w1", "w2"}, s \in 1..Len(FormatStacks), message \in FormatMessages :
           FormatPrefix(instance, s, message)

SpecFormat == Init /\ [][NextFormat]_vars

\* the prefix a template renders for a class, a method and a message
renderPrefix(template, className, methodName, message) ==
    Trim(NormalizeSpaces(
        ReplaceFirst(applyNames(template, getNamespace(config), className, methodName),
                     "{message}", message)))

\* prefix shows className as its class segment: it is what the direct or the
\* callback template renders for that class and the method of the stack (or
\* none)
hasClassSegment(prefix, className, stackMethod, message) ==
    \E template \in {getFormatTemplate(config), getCallbackFormatTemplate(config)},
       methodName \in {stackMethod, Absent} :
           prefix = renderPrefix(template, className, methodName, message)

\* C8 (as stated): when the instance is registered under a display name and
\* the stack yields a different class name, the class segment of the prefix
\* is the display name, for formatPrefixOnly and formatPrefixCustom alike.
C8_RegisteredNameIsClassSegment ==
    lastCall.op = "formatPrefix" =>
        LET X    == lookupRegistered(classNameMap, lastCall.key)
            info == getCallerInfo(FormatStacks[lastCall.num])
        IN  (Truthy(X) /\ Truthy(info.className) /\ info.className # X) =>
                /\ hasClassSegment(lastCall.only, X, info.methodName, <<>>)
                /\ hasClassSegment(lastCall.custom, X, info.methodName, lastCall.message)

\* C8 (amended): the class segment is the display name unless the name holds
\* a '.' and the formatter takes no method from the stack (a callback context
\* or a stack without method), where the name is split at its last '.'.
C8_RegisteredNameUnlessSplit ==
    lastCall.op = "formatPrefix" =>
        LET X    == lookupRegistered(classNameMap, lastCall.key)
            info == getCallerInfo(FormatStacks[lastCall.num])
        IN  (/\ Truthy(X) /\ Truthy(info.className) /\ info.className # X
             /\ (~Includes(X, ".") \/ (Truthy(info.methodName) /\ ~info.isCallback))) =>
                /\ hasClassSegment(lastCall.only, X, info.methodName, <<>>)
                /\ hasClassSegment(lastCall.custom, X, info.methodName, lastCall.message)

\* C8: registered as Worker and called from a callback of class t, both
\* prefixes show the class Worker in the callback template
C8_WorkerInCallback ==
    /\ lastCall.op = "formatPrefix" /\ lastCall.num = 2 /\ lastCall.message = <<"m">>
    /\ lookupRegistered(classNameMap, lastCall.key) = <<"Worker">>
    /\ lastCall.only = <<"[", getNamespace(config), "]", " ", "Worker", " ", "(callback)", ":">>
    /\ lastCall.custom = lastCall.only \o <<" ", "m">>

----------------------------------------------------------------------------
(* The prefix formatter under configured templates *)

\* setFormatTemplate(template)
SetFormatTemplate(template) ==
    /\ config' = [config EXCEPT !.formatTemplate = template]
    /\ lastCall' = Call("setFormatTemplate", "", "", 0, FALSE, "")
    /\ NoOutput
    /\ UNCHANGED <<logHistory, classNameMap, windowDEBUG, now, flatVars>>

\* setCallbackFormatTemplate(template)
SetCallbackFormatTemplate(template) ==
    /\ config' = [config EXCEPT !.callbackFormatTemplate = template]
    /\ lastCall' = Call("setCallbackFormatTemplate", "", "", 0, FALSE, "")
    /\ NoOutput
    /\ UNCHANGED <<logHistory, classNameMap, windowDEBUG, now, flatVars>>

\* direct templates: the default, and '[{namespace}] {class}.{method} →' of
\* the README, which has no {message}
DirectTemplates ==
    { formatTemplateDefault,
      <<"[", "{namespace}", "]", " ", "{class}", ".", "{method}", " ", "->">> }

\* callback templates: the default, and one that also names the method
CallbackTemplates ==
    { callbackFormatTemplateDefault,
      <<"[", "{namespace}", "]", " ", "{class}", ".", "{method}", " ", "(callback)", ":",
        " ", "{message}">> }

\* component overrides: none, a plain name, and a 'Class.method' name whose
\* method segment starts with '_on'
TemplateComponents == {Absent, <<"Comp">>, <<"Sync", ".", "_onTimeout">>}

\* context instances: none, or the object w1
TemplateInstances == {Undefined, Obj("w1")}

\* messages: none, one word, and two words two spaces apart
TemplateMessages == {<<>>, <<"m">>, <<"a", " ", " ", "b">>}

\* formatPrefixOnly(component, instance) and formatPrefixCustom(component,
\* instance, message) called under stack s
FormatWith(component, instance, s, message) ==
    /\ lastCall' = [op        |-> "format",
                    component |-> component,
                    instance  |-> instance,
                    num       |-> s,
                    message   |-> message,
                    only      |-> formatPrefixOnly(config, classNameMap, component, instance,
                                                   FormatStacks[s]),
                    custom    |-> formatPrefixCustom(config, classNameMap, component, instance,
                                                     message, FormatStacks[s])]
    /\ NoOutput
    /\ UNCHANGED <<config, logHistory, classNameMap, windowDEBUG, now, flatVars>>

NextTemplate ==
    \/ \E template \in DirectTemplates : SetFormatTemplate(template)
    \/ \E template \in CallbackTemplates : SetCallbackFormatTemplate(template)
    \/ \E name \in FormatNames : RegisterLoggerClass("w1", name)
    \/ \E component \in TemplateComponents, instance \in TemplateInstances,
          s \in 1..Len(FormatStacks), message \in TemplateMessages :
           FormatWith(component, instance, s, message)

SpecTemplate == Init /\ [][NextTemplate]_vars

\* the token every callback template of CallbackTemplates holds and no direct
\* template does
CallbackMarker == "(callback)"

\* the stack method stays out of the prefix formatPrefixOnly renders when an
\* instance is supplied and the resolver flags a callback
stackMethodSuppressed ==
    LET info == getCallerInfo(FormatStacks[lastCall.num])
    IN  (ValTruthy(lastCall.instance) /\ info.isCallback /\ Truthy(info.methodName)) =>
            \A i \in 1..Len(info.methodName) : ~Includes(lastCall.only, info.methodName[i])

\* C18 (as stated): the prefix is rendered with the callback template exactly
\* when the resolver classifies the call as callback context, and with the
\* direct template otherwise; with an instance in a callback context the
\* method name is not rendered.
C18_TemplateFollowsResolver ==
    lastCall.op = "format" =>
        /\ getCallerInfo(FormatStacks[lastCall.num]).isCallback
               <=> Includes(lastCall.only, CallbackMarker)
        /\ stackMethodSuppressed

\* C18 (amended): the callback template is used exactly when the resolver
\* flags a callback context or the method name the formatter derives (from
\* the stack, or from a 'Class.method' name split at its '.') contains
\* 'callback' or starts with '_on'; the direct template otherwise.  With an
\* instance and a callback flagged by the resolver the method name of the
\* stack is not rendered.
C18_TemplateFollowsContext ==
    lastCall.op = "format" =>
        LET info     == getCallerInfo(FormatStacks[lastCall.num])
            d        == derivePrefixOnly(classNameMap, lastCall.component,
                                         lastCall.instance, info)
            callback == \/ info.isCallback
                        \/ includesCallback(d.methodName)
                        \/ startsWithOn(d.methodName)
            template == IF callback THEN getCallbackFormatTemplate(config)
                        ELSE getFormatTemplate(config)
        IN  /\ lastCall.only = renderPrefix(template, d.className, d.methodName, <<>>)
            /\ callback <=> Includes(lastCall.only, CallbackMarker)
            /\ stackMethodSuppressed

\* C18: the component 'Sync._onTimeout' under a stack without any plugin
\* frame is rendered with the callback template
C18_SplitNameIsCallback ==
    /\ lastCall.op = "format" /\ lastCall.num = 5
    /\ lastCall.component = <<"Sync", ".", "_onTimeout">>
    /\ lastCall.instance = Undefined
    /\ ~getCallerInfo(FormatStacks[5]).isCallback
    /\ getCallbackFormatTemplate(config) = callbackFormatTemplateDefault
    /\ lastCall.only = <<"[", getNamespace(config), "]", " ", "Sync", " ", "(callback)", ":">>

\* the template ends in ' {message}' and holds {message} nowhere else
endsWithMessage(template) ==
    /\ Len(template) >= 3
    /\ template[Len(template)] = "{message}"
    /\ template[Len(template) - 1] = " "
    /\ template[Len(template) - 2] # " "
    /\ ~Includes(SubSeq(template, 1, Len(template) - 1), "{message}")

----------------------------------------------------------------------------
(* The serializer specification: safeStringify over chains of containers *)

\* Containers in one object graph.
MaxNodes == 5

\* the objects of a graph, root first
NodeIds == <<"n1", "n2", "n3", "n4", "n5", "n6", "n7", "n8">>

\* What a container is: a plain object, an array, an instance of the minified
\* class t, or such an instance registered as Worker.
Shapes == {"plain", "array", "instance", "named"}

\* What the last container of a chain holds besides its own text: a number,
\* nothing at all (an empty container), a property whose getter throws, or a
\* reference back to the container at index `to`.
ChainEnd(kind, to) == [kind |-> kind, to |-> to]

ChainEnds(n) ==
    {ChainEnd("leaf", 0), ChainEnd("none", 0), ChainEnd("throws", 0)}
        \cup {ChainEnd("back", j) : j \in 1..n}

\* The graph of a chain: container i holds the text NodeIds[i] under 'id' and
\* container i+1 under 'next' (as items 0 and 1 when it is an array).
chainHeap(shapes, tail) ==
    LET n == Len(shapes)
        child(i) == IF i < n THEN Obj(NodeIds[i + 1])
                    ELSE CASE tail.kind = "leaf"   -> Num("1")
                           [] tail.kind = "throws" -> Throws
                           [] OTHER                -> Obj(NodeIds[tail.to])
        node(i) ==
            HeapObject(shapes[i] = "array",
                       CASE shapes[i] = "array"                  -> <<"Array">>
                         [] shapes[i] \in {"instance", "named"} -> <<"t">>
                         [] OTHER                                -> <<"Object">>,
                       IF shapes[i] = "named" THEN <<"Worker">> ELSE Absent,
                       IF i = n /\ tail.kind = "none" THEN <<>> ELSE <<"id", "next">>,
                       IF i = n /\ tail.kind = "none" THEN <<>>
                       ELSE <<Str(<<NodeIds[i]>>), child(i)>>)
    IN  [id \in {NodeIds[i] : i \in 1..n} |->
            node(CHOOSE i \in 1..n : NodeIds[i] = id)]

InitSerialize ==
    /\ config = configInit
    /\ logHistory = <<>>
    /\ classNameMap = classNameMapInit
    /\ windowDEBUG = {}
    /\ console = <<>>
    /\ clipboard = [available |-> TRUE, writes |-> <<>>, deferred |-> FALSE, pending |-> 0]
    /\ now = 0
    /\ plugins = <<>>
    /\ sharedDEBUG = <<>>
    /\ \E n \in 1..MaxNodes :
           \E shapes \in [1..n -> Shapes], tail \in ChainEnds(n) :
               lastCall = [op |-> "graph", shapes |-> shapes, tail |-> tail,
                           result |-> <<>>, raised |-> FALSE]

\* the arguments of the call that logs the graph: error(w1, 'a', n1, 'z')
graphArgs == <<Obj("w1"), Str(<<"a">>), Obj(NodeIds[1]), Str(<<"z">>)>>

\* error(w1, 'a', n1, 'z') from the method t.run, for the graph drawn at the
\* start; result is the text safeStringify returns for n1
LogGraph ==
    LET h     == chainHeap(lastCall.shapes, lastCall.tail)
        stack == CallSites[1].stack
        r     == safeStringify(h, Obj(NodeIds[1]))
    IN  /\ lastCall.op = "graph"
        /\ IF ~shouldLog(config, windowDEBUG, "error")
           THEN /\ lastCall' = [lastCall EXCEPT !.op = "suppressed"]
                /\ UNCHANGED <<logHistory, console, now>>
           ELSE IF logParts(config, classNameMap, h, graphArgs, stack).raised
           THEN /\ lastCall' = [lastCall EXCEPT !.op = "emit", !.raised = TRUE]
                /\ UNCHANGED <<logHistory, console, now>>
           ELSE /\ logHistory' = addLogEntry(logHistory,
                        makeEntry(config, classNameMap, h, "error", graphArgs, stack,
                                  now + 1))
                /\ console' = <<consoleWrite(config, classNameMap, h, "error",
                                             graphArgs, stack)>>
                /\ now' = now + 1
                /\ lastCall' = [lastCall EXCEPT !.op = "emit", !.result = r.text]
        /\ UNCHANGED <<config, classNameMap, windowDEBUG, clipboard, flatVars>>

NextSerialize == LogGraph

SpecSerialize == InitSerialize /\ [][NextSerialize]_vars

\* the graph of the latest call holds a cycle
cyclic == lastCall.tail.kind = "back"

C15_NoContentsBeyondLimit ==
    lastCall.op = "emit" =>
        \A i \in (maxDepth + 1)..Len(lastCall.shapes) :
            ~Includes(lastCall.result, NodeIds[i])

\* C15: a chain of plain objects deeper than the limit is rendered in full:
\* the text shows the contents of its deepest container
C15_DeepObjectShown ==
    /\ lastCall.op = "emit"
    /\ Len(lastCall.shapes) > maxDepth + 1
    /\ \A i \in 1..Len(lastCall.shapes) : lastCall.shapes[i] = "plain"
    /\ lastCall.tail.kind = "leaf"
    /\ Includes(lastCall.result, NodeIds[Len(lastCall.shapes)])
    /\ ~Includes(lastCall.result, "[Object...]")

\* C16 (as stated): the text of an instance that has a registered display
\* name and a constructor name other than Object/Function starts with the
\* registered name.
C16_RegisteredNameFirst ==
    (lastCall.op = "emit" /\ lastCall.shapes[1] = "named") =>
        /\ lastCall.result # <<>>
        /\ Head(lastCall.result) = "Worker"

\* C16: an instance of t registered as Worker, without properties, is
\* rendered 't'
C16_ConstructorNameWins ==
    /\ lastCall.op = "emit"
    /\ lastCall.shapes = <<"named">> /\ lastCall.tail.kind = "none"
    /\ lastCall.result = <<"t">>

\* the graph of the latest call has a property whose getter throws
failing == lastCall.tail.kind = "throws"

\* C17: logging a graph never raises: the entry is appended and the console
\* written, with the other message parts around the text of the graph; a
\* failing property read while an object is rendered part by part shows as
\* '[Error]' and a failing array as '[Object]', and what precedes it is
\* rendered.
C17_FailureIsLocal ==
    lastCall.op # "graph" =>
        /\ lastCall.op = "emit" /\ ~lastCall.raised
        /\ now = 1 /\ Len(logHistory) = 1 /\ Len(console) = 1
        /\ lastCall.result # <<>>
        /\ LastEntry.message = <<"a", " ">> \o lastCall.result \o <<" ", "z">>
        /\ console[1].message = LastEntry.message
        /\ (/\ failing
            /\ Len(lastCall.shapes) <= maxDepth
            /\ \A i \in 1..Len(lastCall.shapes) : lastCall.shapes[i] \in {"plain", "array"})
           => LET n == Len(lastCall.shapes)
              IN  /\ Includes(lastCall.result,
                              IF lastCall.shapes[n] = "plain" THEN "[Error]" ELSE "[Object]")
                  /\ \A i \in 1..(n - 1) : Includes(lastCall.result, NodeIds[i])

\* C17: the getter of 'next' throws: the object is logged as
\* 'a {id: n1, next: [Error]} z'
C17_GetterThrows ==
    /\ lastCall.op = "emit" /\ failing /\ lastCall.shapes = <<"plain">>
    /\ Len(logHistory) = 1 /\ Len(console) = 1
    /\ LastEntry.message = <<"a", " ", "{", "id", ":", " ", "n1", ",", " ",
                             "next", ":", " ", "[Error]", "}", " ", "z">>
----------------------------------------------------------------------------
(* The path specification: simplifyPath applied once and twice *)

\* Parts one text is made of.
MaxParts == 3

\* the parts of a text: a POSIX path, raw Windows paths with three and two
\* segments, an escaped Windows path, a UNC path, './' and '../' paths, a
\* '..?/' path, a space, and an opening parenthesis
PathParts ==
    { <<"/", "a", "/", "b", "/", "c">>,
      <<"C", ":", "\\", "a", "\\", "b", "\\", "c">>,
      <<"D", ":", "\\", "a", "\\", "b">>,
      <<"C", ":", "\\", "\\", "a", "\\", "\\", "b", "\\", "\\", "c">>,
      <<"\\", "\\", "s", "\\", "h", "\\", "a", "\\", "b">>,
      <<".", "/", "a", "/", "b", "/", "c">>,
      <<"..", "/", "a", "/", "b", "/", "c">>,
      <<"..", "?", "/", "a", "/", "b", "/", "c">>,
      <<" ">>,
      <<"(">> }

RECURSIVE concatParts(_)
concatParts(ps) == IF ps = <<>> THEN <<>> ELSE Head(ps) \o concatParts(Tail(ps))

InitPath ==
    /\ config = configInit
    /\ logHistory = <<>>
    /\ classNameMap = classNameMapInit
    /\ windowDEBUG = {}
    /\ console = <<>>
    /\ clipboard = [available |-> TRUE, writes |-> <<>>, deferred |-> FALSE, pending |-> 0]
    /\ now = 0
    /\ plugins = <<>>
    /\ sharedDEBUG = <<>>
    /\ \E k \in 1..MaxParts :
           \E ps \in [1..k -> PathParts] :
               lastCall = [op |-> "text", text |-> concatParts(ps),
                           once |-> <<>>, twice |-> <<>>]

\* simplifyPath(text), and simplifyPath of its result
SimplifyPath ==
    /\ lastCall.op = "text"
    /\ lastCall' = [lastCall EXCEPT !.op = "simplifyPath",
                                    !.once = simplifyPath(lastCall.text),
                                    !.twice = simplifyPath(simplifyPath(lastCall.text))]
    /\ UNCHANGED <<config, logHistory, classNameMap, windowDEBUG, console, clipboard,
                   now, flatVars>>

NextPath == SimplifyPath

SpecPath == InitPath /\ [][NextPath]_vars

\* C20: simplifying a simplified text changes nothing, for texts holding
\* paths of any of the four grammars.
C20_SimplifyIdempotent ==
    lastCall.op = "simplifyPath" => lastCall.twice = lastCall.once

\* C20: '/a/b/c' becomes '.../b/c' and a second pass leaves it alone
C20_PosixPathStable ==
    /\ lastCall.op = "simplifyPath"
    /\ lastCall.text = <<"/", "a", "/", "b", "/", "c">>
    /\ lastCall.once = <<"...", "/", "b", "/", "c">>
    /\ lastCall.twice = lastCall.once

\* the paths of PathParts that have three segments, by grammar
threeSegmentAbsolute ==
    { <<"/", "a", "/", "b", "/", "c">>,
      <<"C", ":", "\\", "a", "\\", "b", "\\", "c">>,
      <<"C", ":", "\\", "\\", "a", "\\", "\\", "b", "\\", "\\", "c">> }

threeSegmentRelative ==
    { <<".", "/", "a", "/", "b", "/", "c">>,
      <<"..", "/", "a", "/", "b", "/", "c">> }

\* what may stand in front of a path in a text
pathLeads == {<<>>, <<" ">>, <<"(">>}

lastTwo == <<"...", "/", "b", "/", "c">>

\* C21: a text that is one path of three segments, alone or after a space or
\* an opening parenthesis, is exported as the same lead followed by
\* '.../b/c' (for a relative path, with or without its './' or '../' kept),
\* whichever of the four grammars the path belongs to.
C21_EveryGrammarCollapsed ==
    lastCall.op = "simplifyPath" =>
        \A lead \in pathLeads :
            /\ \A path \in threeSegmentAbsolute :
                   lastCall.text = lead \o path => lastCall.once = lead \o lastTwo
            /\ \A path \in threeSegmentRelative :
                   lastCall.text = lead \o path =>
                       lastCall.once \in { lead \o lastTwo,
                                           lead \o SubSeq(path, 1, 2) \o lastTwo }

\* C21: '(C:\a\b\c' becomes '(.../b/c': the raw Windows grammar collapses the
\* path and keeps the parenthesis in front of it
C21_WindowsPathCollapsed ==
    /\ lastCall.op = "simplifyPath"
    /\ lastCall.text = <<"(", "C", ":", "\\", "a", "\\", "b", "\\", "c">>
    /\ lastCall.once = <<"(">> \o lastTwo

----------------------------------------------------------------------------
(* The argument specification: error(...args) over argument lists *)

\* Arguments of one call.
MaxArgs == 3

\* the values an argument takes: an identifier-shaped string, another one, a
\* string with a space, an object, null and a number
ArgValues ==
    { Str(<<"Comp">>), Str(<<"run">>), Str(<<"two", " ", "words">>),
      Obj("w1"), Null, Num("42") }

\* the object the arguments refer to: the instance w1 = { id: 'w1' } of the
\* (minified) class t
ArgHeap ==
    [o \in {"w1"} |-> HeapObject(FALSE, <<"t">>, Absent, <<"id">>, <<Str(<<"w1">>)>>)]

\* the stack captured by the call: a method of t
ArgStack == InternalFrames \o <<Frame(<<"t", ".", "run">>, FALSE, FALSE, TRUE)>>

InitArgs ==
    /\ config = configInit
    /\ logHistory = <<>>
    /\ classNameMap = classNameMapInit
    /\ windowDEBUG = {}
    /\ console = <<>>
    /\ clipboard = [available |-> TRUE, writes |-> <<>>, deferred |-> FALSE, pending |-> 0]
    /\ now = 0
    /\ plugins = <<>>
    /\ sharedDEBUG = <<>>
    /\ \E n \in 1..MaxArgs :
           \E args \in [1..n -> ArgValues] :
               lastCall = [op |-> "args", args |-> args, parsed |-> parseLogArgs(<<>>),
                           ret |-> ""]

\* error(...args): log('error', ...args), which the gate always accepts
LogValues ==
    LET args == lastCall.args
    IN  /\ lastCall.op = "args"
        /\ shouldLog(config, windowDEBUG, "error")
        /\ IF logParts(config, classNameMap, ArgHeap, args, ArgStack).raised
           THEN /\ lastCall' = [lastCall EXCEPT !.op = "error", !.ret = "raised",
                                                !.parsed = parseLogArgs(args)]
                /\ console' = <<>>
                /\ UNCHANGED <<logHistory, now>>
           ELSE /\ logHistory' = addLogEntry(logHistory,
                        makeEntry(config, classNameMap, ArgHeap, "error", args,
                                  ArgStack, now + 1))
                /\ console' = <<consoleWrite(config, classNameMap, ArgHeap, "error",
                                             args, ArgStack)>>
                /\ now' = now + 1
                /\ lastCall' = [lastCall EXCEPT !.op = "error", !.ret = "accepted",
                                                !.parsed = parseLogArgs(args)]
        /\ clipboard' = [clipboard EXCEPT !.writes = <<>>]
        /\ UNCHANGED <<config, classNameMap, windowDEBUG, flatVars>>

NextArgs == LogValues

SpecArgs == InitArgs /\ [][NextArgs]_vars

\* a string argument without a space
isComponentArg(v) == v.kind = "str" /\ ~Includes(v.text, " ")

\* the text of the message made of the arguments from the k-th on
messageFrom(args, k) == messageOf(ArgHeap, SubSeq(args, k, Len(args))).text

\* which argument is taken as the component override or as the context
\* instance, as C24 states it
overridesExtracted ==
    LET args == lastCall.args
    IN  IF Len(args) > 1 /\ isComponentArg(args[1])
        THEN /\ lastCall.parsed.component = args[1].text
             /\ lastCall.parsed.contextInstance = Undefined
             /\ LastEntry.className = args[1].text
        ELSE IF Len(args) > 1 /\ args[1].kind = "obj"
        THEN /\ lastCall.parsed.component = Absent
             /\ lastCall.parsed.contextInstance = args[1]
        ELSE /\ lastCall.parsed.component = Absent
             /\ lastCall.parsed.contextInstance = Undefined

\* C24 (as stated): with more than one argument, a first string without a
\* space is the component override, else a first object is the context
\* instance, and in both cases the message is made of the remaining arguments;
\* a single argument is the message and nothing is extracted.
C24_RemainingAreMessage ==
    lastCall.op = "error" =>
        LET args == lastCall.args
        IN  /\ overridesExtracted
            /\ LastEntry.message =
                   IF Len(args) > 1 /\ (isComponentArg(args[1]) \/ args[1].kind = "obj")
                   THEN messageFrom(args, 2)
                   ELSE messageFrom(args, 1)

\* a component override followed by an identifier-shaped string
methodOverridden(args) ==
    /\ Len(args) > 1 /\ isComponentArg(args[1])
    /\ args[2].kind = "str" /\ isIdentifier(args[2].text)

\* C24: as above, except that an identifier-shaped string that follows the
\* component override is the method override and no message part: the
\* message is then made of the arguments after it.
C24_MessageAfterOverrides ==
    lastCall.op = "error" =>
        LET args == lastCall.args
        IN  /\ overridesExtracted
            /\ LastEntry.message =
                   IF methodOverridden(args) THEN messageFrom(args, 3)
                   ELSE IF Len(args) > 1
                           /\ (isComponentArg(args[1]) \/ args[1].kind = "obj")
                   THEN messageFrom(args, 2)
                   ELSE messageFrom(args, 1)
            /\ methodOverridden(args) => LastEntry.methodName = args[2].text

\* C24: error('Comp', 'run') stores class 'Comp', method 'run' and an empty
\* message
C24_SecondStringIsMethod ==
    /\ lastCall.op = "error"
    /\ lastCall.args = <<Str(<<"Comp">>), Str(<<"run">>)>>
    /\ LastEntry.className = <<"Comp">>
    /\ LastEntry.methodName = <<"run">>
    /\ LastEntry.message = <<>>

----------------------------------------------------------------------------
(* The resolver specification: getCallerInfo over captured stacks *)

\* Frames of one captured stack.
MaxFrames == 3

\* the frames of a stack: two of the logger's own, a foreign eval line, a
\* method of t, a bare function, a constructor invocation 'new Panel', a
\* constructor invocation of a nested name 'new ui.Panel', and an
\* Object.<anonymous> line
ResolverFrames ==
    { Frame(<<"getCallerInfo">>, FALSE, TRUE, TRUE),
      Frame(<<"debug">>, FALSE, FALSE, TRUE),
      Frame(<<"eval">>, FALSE, FALSE, FALSE),
      Frame(<<"t", ".", "run">>, FALSE, FALSE, TRUE),
      Frame(<<"load">>, FALSE, FALSE, TRUE),
      Frame(<<"Panel">>, TRUE, FALSE, TRUE),
      Frame(<<"ui", ".", "Panel">>, TRUE, FALSE, TRUE),
      Frame(<<"Object", ".", "anonymous">>, FALSE, FALSE, TRUE) }

InitResolver ==
    /\ config = configInit
    /\ logHistory = <<>>
    /\ classNameMap = classNameMapInit
    /\ windowDEBUG = {}
    /\ console = <<>>
    /\ clipboard = [available |-> TRUE, writes |-> <<>>, deferred |-> FALSE, pending |-> 0]
    /\ now = 0
    /\ plugins = <<>>
    /\ sharedDEBUG = <<>>
    /\ \E n \in 1..MaxFrames :
           \E stack \in [1..n -> ResolverFrames] :
               lastCall = [op |-> "stack", stack |-> stack, info |-> NoCallerInfo]

\* getCallerInfo() under the captured stack
GetCallerInfo ==
    /\ lastCall.op = "stack"
    /\ lastCall' = [lastCall EXCEPT !.op = "getCallerInfo",
                                    !.info = getCallerInfo(lastCall.stack)]
    /\ UNCHANGED <<config, logHistory, classNameMap, windowDEBUG, console, clipboard,
                   now, flatVars>>

NextResolver == GetCallerInfo

SpecResolver == InitResolver /\ [][NextResolver]_vars

\* the stack lines getCallerInfo does not discard
relevantLines == SelectSeq(lastCall.stack, isRelevantLine)

\* C25: when the nearest stack line that is not discarded is a constructor
\* invocation 'new TypeName(...)', getCallerInfo returns className = TypeName
\* and methodName = 'constructor'.
C25_ConstructorFrame ==
    (/\ lastCall.op = "getCallerInfo"
     /\ relevantLines # <<>>
     /\ Head(relevantLines).isNew) =>
        /\ lastCall.info.className = Head(relevantLines).fn
        /\ lastCall.info.methodName = <<"constructor">>

\* C25: under the stack 'at debug', 'at new Panel', 'at t.run' the resolver
\* returns the method name 'Panel' and no class name
C25_TypeNameAsMethod ==
    /\ lastCall.op = "getCallerInfo"
    /\ lastCall.stack = << Frame(<<"debug">>, FALSE, FALSE, TRUE),
                           Frame(<<"Panel">>, TRUE, FALSE, TRUE),
                           Frame(<<"t", ".", "run">>, FALSE, FALSE, TRUE) >>
    /\ lastCall.info.className = Absent
    /\ lastCall.info.methodName = <<"Panel">>

=============================================================================
